---- MODULE Spec2Model ----
(***************************************************************************)
(* The real-time core of the chat server: the socket registry              *)
(* (userSockets), presence, the message router, the delivery/read state    *)
(* machine and the two delete endpoints, over the durable store            *)
(* (IStorage).  Every socket handler and HTTP route is one action; the     *)
(* store methods are operators on the message table.  MongoStorage's       *)
(* save() is modelled step by step (pre-save hook, then write), and the    *)
(* browser's local message cache (chatCache.ts) as operators on            *)
(* localStorage.                                                           *)
(***************************************************************************)
EXTENDS Integers, Sequences, FiniteSets, TLC

\* ------------------------------------------------------------------ bounds
NumUsers == 2          \* registered users, ids 1..NumUsers
NumConns == 2          \* socket ids that can be live at the same time
MaxMsgs  == 2          \* rows the message table can grow to
MaxSaves == 2          \* MongoStorage: save() calls in flight at the same time
MaxId    == 4          \* MongoStorage: the largest id the pre-save hook hands out
MaxCached == 2         \* client: MAX_CACHED_MESSAGES, scaled down from 100
MaxTimers == 3         \* client: setTimeout callbacks pending at the same time
MaxRun   == 4          \* client: ticks a run of keystrokes is followed for
MaxSends == 2          \* client: text messages one browser sends

Users       == 1..NumUsers
Conns       == 1..NumConns
\* data.receiverId / data.senderId come from the client and are never
\* validated: 0 stands for an id that belongs to no user.
PeerIds     == 0..NumUsers
MessageIds  == 1..MaxMsgs
None        == 0       \* undefined: no userId on the socket, no map entry
Null        == "null"  \* a null content / imagePath
Contents    == {Null, "hi"}
ImagePaths  == {Null, "/api/uploads/a.png"}

\* client timeouts, in ticks of 250 ms
DebounceWait      == 2     \* debounce(..., 500)
TypingStateReset  == 8     \* setTimeout(..., 2000) of sendTypingStatus
TypingStatusReset == 12    \* setTimeout(..., 3000) of socket.on("user_typing")

\* client: CACHE_EXPIRY_MS, in days
CacheExpiry == 7

VARIABLES
    sockets,      \* io.sockets.sockets: the ids of the connected sockets
    userId,       \* per connection: the handler closure's `let userId`
    userSockets,  \* the registry Map<userId, socketId>
    users,        \* store: User rows (the online flag)
    messages,     \* store: Message rows in insertion order
    lastOp,       \* the handler that ran last, its inputs and its outcome
    lastEmits,    \* the events that handler emitted, in emission order
    authLog,      \* history: the connected authenticated sockets, in the order
                  \* of their latest successful auth (oldest first)
    inflight,     \* MongoStorage: the documents whose save() has not returned,
                  \* and the handlers suspended at an await of a store call
    localStorage, \* client: the browser's localStorage, chat_cache_ keys only
    queryClient,  \* client: the query cache, keys ['typing-status'] and
                  \* ['/api/messages', partnerId]; with it the state of the
                  \* useChatCache hook of the open conversation: its messages
                  \* and, while a fetchFromAPI is awaited, <<what it holds>>
    timers,       \* client: the pending setTimeout callbacks
    typingState,  \* client: socket.ts `typingState`, per receiver
    keystrokes,   \* history: the current run of keystrokes in the message input
                  \* (ticks since its first and since its latest keystroke,
                  \* typing events emitted during it) and the ticks since the
                  \* latest typing event
    sends,        \* client: the messages the browser sent and received, oldest
                  \* first (the latest send is the one the message_sent
                  \* listener closes over)
    outbox        \* the sockets whose client has emitted the mark_delivered of
                  \* its auth_success handler and the server has not handled it

\* the state of the browser besides localStorage
browser == <<queryClient, timers, typingState, keystrokes, sends>>

vars == <<sockets, userId, userSockets, users, messages, lastOp, lastEmits, authLog,
          inflight, localStorage, browser, outbox>>

\* ------------------------------------------------------------------ events
EvDefaults ==
    [messageId |-> 0, userId |-> 0, senderId |-> 0, receiverId |-> 0,
     content |-> Null, imagePath |-> Null, online |-> FALSE, userIdString |-> ""]

\* socket.emit(ev, payload) on socket `to`
Emit(to, ev, payload) == [to |-> to, ev |-> ev] @@ payload @@ EvDefaults

Op(op, conn, user, arg, status, count) ==
    [op |-> op, conn |-> conn, user |-> user, arg |-> arg,
     status |-> status, count |-> count]

RECURSIVE SetToSeq(_)
SetToSeq(S) ==
    IF S = {} THEN <<>>
    ELSE LET x == CHOOSE y \in S : \A z \in S : y <= z
         IN  <<x>> \o SetToSeq(S \ {x})

\* io.emit(ev, payload): one copy to every connected socket
Broadcast(targets, ev, payload) ==
    LET hs == SetToSeq(targets)
    IN  [i \in DOMAIN hs |-> Emit(hs[i], ev, payload)]

Without(seq, x) == SelectSeq(seq, LAMBDA y : y # x)

\* ------------------------------------------------------------------ registry
\* userSockets.get(id) followed by io.sockets.sockets.get(socketId)
LiveSocket(reg, live, id) ==
    IF id \in Users /\ reg[id] # None /\ reg[id] \in live THEN reg[id] ELSE None

\* ------------------------------------------------------------------ store
\* mutant: the flag is only ever raised
setUserOnlineStatusSticky(us, id, status) ==
    IF id \in DOMAIN us THEN [us EXCEPT ![id].online = @ \/ status] ELSE us

setUserOnlineStatus(us, id, status) ==
    IF id \in DOMAIN us THEN [us EXCEPT ![id].online = status] ELSE us

\* the row as a one-element sequence, <<>> for undefined
getUser(us, id) == IF id \in DOMAIN us THEN <<us[id]>> ELSE <<>>

\* mutant: the row is inserted twice
createMessageTwice(ms, senderId, receiverId, content, imagePath) ==
    LET row(n) == [id |-> n, senderId |-> senderId, receiverId |-> receiverId,
                   content |-> content, imagePath |-> imagePath, timestamp |-> n,
                   delivered |-> FALSE, read |-> FALSE, isDeleted |-> FALSE,
                   deletedBy |-> <<>>]
    IN  ms \o <<row(Len(ms) + 1), row(Len(ms) + 2)>>

createMessage(ms, senderId, receiverId, content, imagePath) ==
    Append(ms, [id         |-> Len(ms) + 1,
                senderId   |-> senderId,
                receiverId |-> receiverId,
                content    |-> content,
                imagePath  |-> imagePath,
                timestamp  |-> Len(ms) + 1,
                delivered  |-> FALSE,
                read       |-> FALSE,
                isDeleted  |-> FALSE,
                deletedBy  |-> <<>>])

getMessages(ms, a, b) ==
    SelectSeq(ms, LAMBDA m : \/ (m.senderId = a /\ m.receiverId = b)
                             \/ (m.senderId = b /\ m.receiverId = a))

\* mutant: the flag of the receiver's messages is flipped
markMessagesAsDeliveredFlips(ms, receiverId) ==
    [i \in DOMAIN ms |->
        IF ms[i].receiverId = receiverId
        THEN [ms[i] EXCEPT !.delivered = ~@] ELSE ms[i]]

markMessagesAsDelivered(ms, receiverId) ==
    [i \in DOMAIN ms |->
        IF ms[i].receiverId = receiverId /\ ~ms[i].delivered
        THEN [ms[i] EXCEPT !.delivered = TRUE] ELSE ms[i]]

markMessagesAsRead(ms, senderId, receiverId) ==
    [i \in DOMAIN ms |->
        IF ms[i].senderId = senderId /\ ms[i].receiverId = receiverId /\ ~ms[i].read
        THEN [ms[i] EXCEPT !.read = TRUE] ELSE ms[i]]

\* the count both mark* methods return: the rows they changed
Modified(before, after) == Cardinality({i \in DOMAIN before : before[i] # after[i]})

getUndeliveredMessages(ms, receiverId) ==
    SelectSeq(ms, LAMBDA m : m.receiverId = receiverId /\ ~m.delivered)

HasMessage(ms, messageId) == \E i \in DOMAIN ms : ms[i].id = messageId

MessageById(ms, messageId) == ms[CHOOSE i \in DOMAIN ms : ms[i].id = messageId]

\* deletedBy.includes(uid)
Includes(list, uid) == \E k \in DOMAIN list : list[k] = uid

\* mutant: storing the viewer's deletion clears the tombstone
deleteMessageForMeRevives(ms, messageId, uid) ==
    [i \in DOMAIN ms |->
        IF ms[i].id = messageId
        THEN [ms[i] EXCEPT !.deletedBy = IF Includes(@, uid) THEN @ ELSE Append(@, uid),
                           !.isDeleted = FALSE]
        ELSE ms[i]]

deleteMessageForMe(ms, messageId, uid) ==
    [i \in DOMAIN ms |->
        IF ms[i].id = messageId /\ ~Includes(ms[i].deletedBy, uid)
        THEN [ms[i] EXCEPT !.deletedBy = Append(@, uid)] ELSE ms[i]]

deleteMessageForAll(ms, messageId) ==
    [i \in DOMAIN ms |->
        IF ms[i].id = messageId THEN [ms[i] EXCEPT !.isDeleted = TRUE] ELSE ms[i]]

\* ------------------------------------------------------------------ client cache
\* chatCache.ts: one localStorage item per conversation, <<>> when the key is
\* absent, else <<entry>> with entry = {messages, metadata.lastMessageId}.
\* A cached message is its id and its timestamp (an ISO string in the item,
\* compared through new Date(...).getTime()).

Min(a, b) == IF a <= b THEN a ELSE b

\* getCacheKey: the two ids in ascending order
getCacheKey(a, b) == IF a <= b THEN <<a, b>> ELSE <<b, a>>

\* the users a browser can hold a conversation with: the users of the server
\* model and one more
Chats == 1..(NumUsers + 1)

CacheKeys == {getCacheKey(a, b) : a \in Chats, b \in Chats}

\* the messages handed to the cache: one more id and one more timestamp than
\* the cache keeps
CacheMessages == [id : 1..(MaxCached + 1), timestamp : 1..(MaxCached + 1)]

\* Array.prototype.sort with the comparator of cacheMessages is stable: x goes
\* behind every element that does not have to follow it
RECURSIVE InsertNewestFirst(_, _)
InsertNewestFirst(sorted, x) ==
    IF sorted = <<>> THEN <<x>>
    ELSE IF Head(sorted).timestamp >= x.timestamp
         THEN <<Head(sorted)>> \o InsertNewestFirst(Tail(sorted), x)
         ELSE <<x>> \o sorted

RECURSIVE InsertOldestFirst(_, _)
InsertOldestFirst(sorted, x) ==
    IF sorted = <<>> THEN <<x>>
    ELSE IF Head(sorted).timestamp <= x.timestamp
         THEN <<Head(sorted)>> \o InsertOldestFirst(Tail(sorted), x)
         ELSE <<x>> \o sorted

RECURSIVE SortNewestFirst(_)
SortNewestFirst(list) ==
    IF list = <<>> THEN <<>>
    ELSE InsertNewestFirst(SortNewestFirst(SubSeq(list, 1, Len(list) - 1)), list[Len(list)])

RECURSIVE SortOldestFirst(_)
SortOldestFirst(list) ==
    IF list = <<>> THEN <<>>
    ELSE InsertOldestFirst(SortOldestFirst(SubSeq(list, 1, Len(list) - 1)), list[Len(list)])

\* slice(0, MAX_CACHED_MESSAGES)
Slice(list, n) == SubSeq(list, 1, IF Len(list) < n THEN Len(list) ELSE n)

\* mutant: the slice is taken of the list oldest first
CacheEntryKeepsOldest(list) ==
    LET sortedMessages == Slice(SortOldestFirst(list), MaxCached)
    IN  [messages |-> sortedMessages,
         lastMessageId |-> IF sortedMessages = <<>> THEN 0
                           ELSE sortedMessages[Len(sortedMessages)].id,
         age |-> 0, idle |-> 0, parses |-> TRUE]

\* the entry cacheMessages writes for `list`: the newest MAX_CACHED_MESSAGES,
\* oldest first.  `age` is Date.now() - metadata.timestamp in days; `idle`
\* are the days since the item was last set (history); `parses` says
\* whether JSON.parse accepts the item's text.
CacheEntry(list) ==
    LET sortedMessages == SortOldestFirst(Slice(SortNewestFirst(list), MaxCached))
    IN  [messages |-> sortedMessages,
         lastMessageId |-> IF sortedMessages = <<>> THEN 0
                           ELSE sortedMessages[Len(sortedMessages)].id,
         age |-> 0, idle |-> 0, parses |-> TRUE]

\* cacheMessages: setItem, or removeItem when setItem throws
cacheMessages(ls, key, list, setItemFails) ==
    [ls EXCEPT ![key] = IF setItemFails THEN <<>> ELSE <<CacheEntry(list)>>]

\* getCachedMessages: the store after the call (an expired item is removed)
\* and the messages it returns, <<>> also standing for null
AfterGet(ls, key, expired) ==
    IF ls[key] # <<>> /\ (expired \/ ~ls[key][1].parses)
    THEN [ls EXCEPT ![key] = <<>>] ELSE ls

\* mutant: an expired item is returned like a fresh one
getCachedMessagesIgnoresExpiry(ls, key, expired) ==
    IF ls[key] = <<>> THEN <<>>
    ELSE IF ~ls[key][1].parses THEN <<>>
    ELSE ls[key][1].messages

getCachedMessages(ls, key, expired) ==
    IF ls[key] = <<>> THEN <<>>
    ELSE IF ~ls[key][1].parses \/ expired THEN <<>>
    ELSE ls[key][1].messages

\* cachedMessages.some(msg => msg.id === newMessage.id)
SomeId(list, id) == \E k \in DOMAIN list : list[k].id = id

\* mutant: the message is appended without looking for its id
addMessageToCacheUnchecked(ls, key, newMessage, expired, setItemFails) ==
    cacheMessages(AfterGet(ls, key, expired), key,
                  Append(getCachedMessages(ls, key, expired), newMessage), setItemFails)

addMessageToCache(ls, key, newMessage, expired, setItemFails) ==
    LET cachedMessages == getCachedMessages(ls, key, expired)
    IN  IF SomeId(cachedMessages, newMessage.id)
        THEN AfterGet(ls, key, expired)
        ELSE cacheMessages(AfterGet(ls, key, expired), key,
                           Append(cachedMessages, newMessage), setItemFails)

\* the message with the status of updateMessageStatusInCache spread over it
WithStatus(msg, status) ==
    IF status = "delivered" THEN [delivered |-> TRUE] @@ msg
    ELSE [delivered |-> TRUE, read |-> TRUE] @@ msg

\* updateMessageStatusInCache: every item that holds the message is set
\* again with the message's status changed, metadata as it was; an item that
\* does not parse, or whose setItem throws, is removed
updateMessageStatusInCache(ls, messageId, status, setItemFails) ==
    [key \in DOMAIN ls |->
        IF ls[key] = <<>> THEN <<>>
        ELSE IF ~ls[key][1].parses THEN <<>>
        ELSE IF ~SomeId(ls[key][1].messages, messageId) THEN ls[key]
        ELSE IF setItemFails THEN <<>>
        ELSE LET cacheEntry == ls[key][1]
                 updatedMessages ==
                     [i \in DOMAIN cacheEntry.messages |->
                         IF cacheEntry.messages[i].id = messageId
                         THEN WithStatus(cacheEntry.messages[i], status)
                         ELSE cacheEntry.messages[i]]
             IN  <<[cacheEntry EXCEPT !.messages = updatedMessages, !.idle = 0]>>]

\* ------------------------------------------------------------------ initial state
Init ==
    /\ sockets = {}
    /\ userId = [h \in Conns |-> None]
    /\ userSockets = [u \in Users |-> None]
    /\ users = [u \in Users |-> [online |-> FALSE]]
    /\ messages = <<>>
    /\ lastOp = Op("init", 0, 0, 0, "ok", 0)
    /\ lastEmits = <<>>
    /\ authLog = <<>>
    /\ inflight = <<>>
    /\ localStorage = [key \in CacheKeys |-> <<>>]
    /\ queryClient = [typing_status |-> [u \in Users |-> FALSE],
                      api_messages  |-> [u \in Chats |-> <<>>],
                      useChatCache  |-> [messages |-> <<>>, fetching |-> <<>>]]
    /\ timers = {}
    /\ typingState = [u \in Users |-> FALSE]
    /\ keystrokes = [typing |-> FALSE, since |-> 0, idle |-> 0, sent |-> 0,
                     quiet |-> DebounceWait]
    /\ sends = <<>>
    /\ outbox = {}

\* ------------------------------------------------------------------ connections
\* io.on("connection"): a new socket, no identity yet
Connect(h) ==
    /\ h \notin sockets
    /\ sockets' = sockets \cup {h}
    /\ userId' = [userId EXCEPT ![h] = None]
    /\ lastOp' = Op("connection", h, None, 0, "ok", 0)
    /\ lastEmits' = <<>>
    /\ UNCHANGED <<userSockets, users, messages, authLog, inflight, localStorage, browser, outbox>>

\* mutant: an existing binding of the user is kept, the new socket is not bound
AuthKeepsFirstBinding(h, u) ==
    /\ h \in sockets
    /\ userId[h] \in {None, u}
    /\ userId' = [userId EXCEPT ![h] = u]
    /\ userSockets' = IF userSockets[u] = None
                      THEN [userSockets EXCEPT ![u] = h] ELSE userSockets
    /\ users' = setUserOnlineStatus(users, u, TRUE)
    /\ lastEmits' = Broadcast(sockets, "user_status", [userId |-> u, online |-> TRUE])
                    \o <<Emit(h, "auth_success", [userId |-> u])>>
    /\ lastOp' = Op("auth", h, u, 0, "ok", 0)
    /\ authLog' = Append(Without(authLog, h), h)
    /\ outbox' = outbox \cup {h}
    /\ UNCHANGED <<sockets, messages, inflight, localStorage, browser>>

\* socket.on("auth") with a token that verifies as user u.  A socket sends the
\* one token setupSocket closed over, on connect and again on reconnect.  The
\* client answers auth_success with mark_delivered (socket.ts 192-197).
Auth(h, u) ==
    /\ h \in sockets
    /\ userId[h] \in {None, u}
    /\ userId' = [userId EXCEPT ![h] = u]
    /\ userSockets' = [userSockets EXCEPT ![u] = h]
    /\ users' = setUserOnlineStatus(users, u, TRUE)
    /\ lastEmits' = Broadcast(sockets, "user_status", [userId |-> u, online |-> TRUE])
                    \o <<Emit(h, "auth_success", [userId |-> u])>>
    /\ lastOp' = Op("auth", h, u, 0, "ok", 0)
    /\ authLog' = Append(Without(authLog, h), h)
    /\ outbox' = outbox \cup {h}
    /\ UNCHANGED <<sockets, messages, inflight, localStorage, browser>>

\* the body of socket.on("disconnect") for socket h, which has left
\* io.sockets.sockets; `before` are the events the caller emitted first
DisconnectHandler(h, before) ==
    /\ sockets' = sockets \ {h}
    /\ authLog' = Without(authLog, h)
    /\ outbox' = outbox \ {h}
    /\ IF userId[h] # None
       THEN /\ users' = setUserOnlineStatus(users, userId[h], FALSE)
            /\ lastEmits' = before \o Broadcast(sockets \ {h}, "user_status",
                                       [userId |-> userId[h], online |-> FALSE])
            /\ userSockets' = [userSockets EXCEPT ![userId[h]] = None]
       ELSE /\ lastEmits' = before
            /\ UNCHANGED <<users, userSockets>>

\* socket.on("auth") with a token that does not verify: error, then
\* socket.disconnect(), which runs the disconnect handler
AuthInvalid(h) ==
    /\ h \in sockets
    /\ userId[h] = None
    /\ DisconnectHandler(h, <<Emit(h, "error", [content |-> "Invalid authentication"])>>)
    /\ lastOp' = Op("auth", h, None, 0, "error", 0)
    /\ UNCHANGED <<userId, messages, inflight, localStorage, browser>>

\* socket.on("auth") with a token that verifies as user u, while
\* storage.setUserOnlineStatus(userId, true) rejects: the handler has set
\* userId and userSockets before the await, and its catch block emits one
\* error event
AuthStoreFails(h, u) ==
    /\ h \in sockets
    /\ userId[h] \in {None, u}
    /\ userId' = [userId EXCEPT ![h] = u]
    /\ userSockets' = [userSockets EXCEPT ![u] = h]
    /\ lastEmits' = <<Emit(h, "error", [content |-> "Authentication error"])>>
    /\ lastOp' = Op("auth", h, u, 0, "store error", 0)
    /\ UNCHANGED <<sockets, users, messages, authLog, inflight, localStorage, browser, outbox>>

\* the transport closes socket h: socket.on("disconnect")
Disconnect(h) ==
    /\ h \in sockets
    /\ DisconnectHandler(h, <<>>)
    /\ userId' = [userId EXCEPT ![h] = None]
    /\ lastOp' = Op("disconnect", h, userId[h], 0, "ok", 0)
    /\ UNCHANGED <<messages, inflight, localStorage, browser>>

\* ------------------------------------------------------------------ message router
\* the payload of private_message / image_message / message_sent
MessageResponse(m) ==
    [messageId |-> m.id, senderId |-> m.senderId, receiverId |-> m.receiverId,
     content |-> m.content, imagePath |-> m.imagePath]

\* mutant: the unauthenticated request is answered with the error but its
\* row is stored all the same
NotAuthenticatedStillStores(h, op, arg) ==
    /\ lastEmits' = <<Emit(h, "error", [content |-> "Not authenticated"])>>
    /\ lastOp' = Op(op, h, None, arg, "error", 0)
    /\ messages' = IF Len(messages) < MaxMsgs
                   THEN createMessage(messages, None, arg, "hi", Null)
                   ELSE messages
    /\ UNCHANGED <<sockets, userId, userSockets, users, authLog, inflight, localStorage, browser, outbox>>

NotAuthenticated(h, op, arg) ==
    /\ lastEmits' = <<Emit(h, "error", [content |-> "Not authenticated"])>>
    /\ lastOp' = Op(op, h, None, arg, "error", 0)
    /\ UNCHANGED <<sockets, userId, userSockets, users, messages, authLog, inflight, localStorage, browser, outbox>>

\* mutant: a recipient without a live socket is reported to the sender as an
\* error and the row is not confirmed
SendHandlerNeedsRecipient(h, op, receiverId, content, imagePath) ==
    LET stored    == createMessage(messages, userId[h], receiverId, content, imagePath)
        m         == stored[Len(stored)]
        recipient == LiveSocket(userSockets, sockets, receiverId)
    IN  /\ Len(messages) < MaxMsgs
        /\ messages' = stored
        /\ lastEmits' =
              IF recipient # None
              THEN <<Emit(recipient, op, MessageResponse(m)),
                     Emit(h, "message_sent", MessageResponse(m))>>
              ELSE <<Emit(h, "error", [content |-> "Recipient offline"])>>
        /\ lastOp' = Op(op, h, userId[h], receiverId,
                        IF recipient # None THEN "ok" ELSE "error", m.id)
        /\ UNCHANGED <<sockets, userId, userSockets, users, authLog, inflight, localStorage, browser, outbox>>

\* the common body of socket.on("private_message") and socket.on("image_message"):
\* persist, push to the recipient's live socket, confirm to the sender
SendHandler(h, op, receiverId, content, imagePath) ==
    LET stored    == createMessage(messages, userId[h], receiverId, content, imagePath)
        m         == stored[Len(stored)]
        sender    == getUser(users, userId[h])
        recipient == LiveSocket(userSockets, sockets, receiverId)
    IN  /\ Len(messages) < MaxMsgs
        /\ messages' = stored
        /\ IF sender = <<>>
           THEN lastEmits' = <<Emit(h, "error", [content |-> "Sender not found"])>>
           ELSE lastEmits' =
                  (IF recipient # None
                   THEN <<Emit(recipient, op, MessageResponse(m))>> ELSE <<>>)
                  \o <<Emit(h, "message_sent", MessageResponse(m))>>
        /\ lastOp' = Op(op, h, userId[h], receiverId,
                        IF sender = <<>> THEN "error" ELSE "ok", m.id)
        /\ UNCHANGED <<sockets, userId, userSockets, users, authLog, inflight, localStorage, browser, outbox>>

\* socket.on("private_message") with data = {receiverId, content}
PrivateMessage(h, receiverId, content) ==
    /\ h \in sockets
    /\ IF userId[h] = None
       THEN NotAuthenticated(h, "private_message", receiverId)
       ELSE SendHandler(h, "private_message", receiverId, content, Null)

\* socket.on("image_message") with data = {receiverId, imagePath}
ImageMessage(h, receiverId, imagePath) ==
    /\ h \in sockets
    /\ IF userId[h] = None
       THEN NotAuthenticated(h, "image_message", receiverId)
       ELSE SendHandler(h, "image_message", receiverId, Null, imagePath)

\* ------------------------------------------------------------------ store failures
\* the store calls of a send that can fail: MongoStorage.createMessage logs
\* and rethrows, MongoStorage.getUser logs and returns undefined
StoreFaults == {"createMessage", "getUser"}

\* the handler's catch block: one error event on the sending socket
CatchMessage(op) ==
    IF op = "private_message" THEN "Error sending message"
    ELSE "Error sending image message"

\* mutant: the failed createMessage is confirmed to the sender all the same
SendHandlerConfirmsUnsaved(h, op, receiverId, content, imagePath, fault) ==
    LET stored == createMessage(messages, userId[h], receiverId, content, imagePath)
        m      == stored[Len(stored)]
    IN  /\ Len(messages) < MaxMsgs
        /\ messages' = IF fault = "createMessage" THEN messages ELSE stored
        /\ lastEmits' = <<Emit(h, "message_sent", MessageResponse(m))>>
        /\ lastOp' = Op(op, h, userId[h], receiverId, fault \o " failed",
                        IF fault = "createMessage" THEN 0 ELSE m.id)
        /\ UNCHANGED <<sockets, userId, userSockets, users, authLog, inflight, localStorage, browser, outbox>>

\* the body of a send handler when the store call `fault` fails: a throwing
\* createMessage leaves the table alone and reaches the catch block; a
\* getUser that returns undefined comes after the row was stored
SendHandlerStoreFails(h, op, receiverId, content, imagePath, fault) ==
    LET stored == createMessage(messages, userId[h], receiverId, content, imagePath)
        m      == stored[Len(stored)]
    IN  /\ Len(messages) < MaxMsgs
        /\ IF fault = "createMessage"
           THEN /\ messages' = messages
                /\ lastEmits' = <<Emit(h, "error", [content |-> CatchMessage(op)])>>
                /\ lastOp' = Op(op, h, userId[h], receiverId, "createMessage failed", 0)
           ELSE /\ messages' = stored
                /\ lastEmits' = <<Emit(h, "error", [content |-> "Sender not found"])>>
                /\ lastOp' = Op(op, h, userId[h], receiverId, "getUser failed", m.id)
        /\ UNCHANGED <<sockets, userId, userSockets, users, authLog, inflight, localStorage, browser, outbox>>

\* socket.on("private_message") on an authenticated socket, store call failing
PrivateMessageStoreFails(h, receiverId, content, fault) ==
    /\ h \in sockets
    /\ userId[h] # None
    /\ SendHandlerStoreFails(h, "private_message", receiverId, content, Null, fault)

\* socket.on("image_message") on an authenticated socket, store call failing
ImageMessageStoreFails(h, receiverId, imagePath, fault) ==
    /\ h \in sockets
    /\ userId[h] # None
    /\ SendHandlerStoreFails(h, "image_message", receiverId, Null, imagePath, fault)

\* ------------------------------------------------------------------ MongoStorage
\* The message collection behind MongoStorage.  A row of `messages` is one
\* document, its position the document's _id.  document.save() is two steps
\* with a suspension point between them: the pre('save') hook reads the
\* largest id and sets this.id, then the write goes to the collection, whose
\* unique index on id rejects a duplicate.  The hook runs on every save, of a
\* new document and of a loaded one.

\* Date.now(), the temporary id createMessage gives a new document: later
\* than every id the hook computes
Clock == {MaxId + 1, MaxId + 2}

\* Message.findOne({}, {}, {sort: {id: -1}}) followed by lastMessage.id + 1
NextId(ms) ==
    IF ms = <<>> THEN 1
    ELSE (CHOOSE n \in {ms[i].id : i \in DOMAIN ms} :
             \A i \in DOMAIN ms : ms[i].id <= n) + 1

\* MessageModel.findOne({id: messageId}): the position of the document, 0 for null
FindOne(ms, messageId) ==
    IF HasMessage(ms, messageId)
    THEN CHOOSE i \in DOMAIN ms : ms[i].id = messageId ELSE 0

\* a document handed to save(): `row` is 0 for a new document; `calledAt` is
\* the number of documents in the collection when the method was called
Saving(op, row, id, user, arg, push) ==
    [op |-> op, row |-> row, id |-> id, user |-> user, arg |-> arg, push |-> push,
     stage |-> "hook", calledAt |-> Len(messages)]

RemoveAt(seq, k) == SubSeq(seq, 1, k - 1) \o SubSeq(seq, k + 1, Len(seq))

StoreOnly == <<sockets, userId, userSockets, users, authLog, localStorage, browser, outbox>>

\* MongoStorage.createMessage up to the hook's query: a new document with
\* the temporary id `now`
MongoCreateMessage(senderId, receiverId, now) ==
    /\ Len(inflight) < MaxSaves
    /\ Len(messages) + Cardinality({k \in DOMAIN inflight : inflight[k].row = 0}) < MaxMsgs
    /\ inflight' = Append(inflight, Saving("createMessage", 0, now, senderId, receiverId, ""))
    /\ lastOp' = Op("createMessage", 0, senderId, receiverId, "saving", 0)
    /\ lastEmits' = <<>>
    /\ UNCHANGED <<messages, StoreOnly>>

\* MongoStorage.deleteMessageForMe up to the hook's query
MongoDeleteMessageForMe(messageId, viewer) ==
    LET row == FindOne(messages, messageId)
    IN  /\ Len(inflight) < MaxSaves
        /\ IF row = 0
           THEN /\ lastOp' = Op("deleteMessageForMe", 0, viewer, messageId, "Message not found", 0)
                /\ UNCHANGED inflight
           ELSE IF Includes(messages[row].deletedBy, ToString(viewer))
           THEN /\ lastOp' = Op("deleteMessageForMe", 0, viewer, messageId, "ok", Len(messages))
                /\ UNCHANGED inflight
           ELSE /\ lastOp' = Op("deleteMessageForMe", 0, viewer, messageId, "saving", 0)
                /\ inflight' = Append(inflight, Saving("deleteMessageForMe", row, messageId,
                                                        viewer, messageId, ToString(viewer)))
        /\ lastEmits' = <<>>
        /\ UNCHANGED <<messages, StoreOnly>>

\* MongoStorage.deleteMessageForAll up to the hook's query
MongoDeleteMessageForAll(messageId) ==
    LET row == FindOne(messages, messageId)
    IN  /\ Len(inflight) < MaxSaves
        /\ IF row = 0
           THEN /\ lastOp' = Op("deleteMessageForAll", 0, 0, messageId, "Message not found", 0)
                /\ UNCHANGED inflight
           ELSE /\ lastOp' = Op("deleteMessageForAll", 0, 0, messageId, "saving", 0)
                /\ inflight' = Append(inflight, Saving("deleteMessageForAll", row, messageId,
                                                        0, messageId, ""))
        /\ lastEmits' = <<>>
        /\ UNCHANGED <<messages, StoreOnly>>

\* messageSchema.pre('save') of the k-th document in flight: this.id becomes
\* the largest id + 1; when the query fails the id the document has is kept
PreSave(k, queryFails) ==
    /\ k \in DOMAIN inflight
    /\ inflight[k].stage = "hook"
    /\ queryFails \/ NextId(messages) <= MaxId
    /\ inflight' = [inflight EXCEPT
                       ![k].id = IF queryFails THEN @ ELSE NextId(messages),
                       ![k].stage = "write"]
    /\ lastOp' = Op("pre save", 0, 0, 0, IF queryFails THEN "error" ELSE "ok", 0)
    /\ lastEmits' = <<>>
    /\ UNCHANGED <<messages, StoreOnly>>

\* the documents another document's id would collide with
Duplicates(ms, doc) == {j \in DOMAIN ms : j # doc.row /\ ms[j].id = doc.id}

\* the inserted document / the update of the modified paths of a loaded one
Written(ms, doc) ==
    IF doc.row = 0
    THEN Append(ms, [id |-> doc.id, senderId |-> doc.user, receiverId |-> doc.arg,
                     content |-> "hi", imagePath |-> Null, timestamp |-> Len(ms) + 1,
                     delivered |-> FALSE, read |-> FALSE, isDeleted |-> FALSE,
                     deletedBy |-> <<>>])
    ELSE [ms EXCEPT ![doc.row].id = doc.id,
                    ![doc.row].isDeleted = (@ \/ doc.op = "deleteMessageForAll"),
                    ![doc.row].deletedBy = IF doc.push = "" THEN @ ELSE Append(@, doc.push)]

\* mutant: the collection has no unique index on id
WriteUnindexed(k) ==
    /\ k \in DOMAIN inflight
    /\ inflight[k].stage = "write"
    /\ messages' = Written(messages, inflight[k])
    /\ lastOp' = Op(inflight[k].op, 0, inflight[k].user, inflight[k].arg, "ok",
                    inflight[k].calledAt)
    /\ inflight' = RemoveAt(inflight, k)
    /\ lastEmits' = <<>>
    /\ UNCHANGED StoreOnly

\* the write of the k-th document in flight; a duplicate id makes save()
\* reject, which the storage method rethrows
Write(k) ==
    /\ k \in DOMAIN inflight
    /\ inflight[k].stage = "write"
    /\ IF Duplicates(messages, inflight[k]) # {}
       THEN /\ UNCHANGED messages
            /\ lastOp' = Op(inflight[k].op, 0, inflight[k].user, inflight[k].arg,
                            "duplicate key", inflight[k].calledAt)
       ELSE /\ messages' = Written(messages, inflight[k])
            /\ lastOp' = Op(inflight[k].op, 0, inflight[k].user, inflight[k].arg, "ok",
                            inflight[k].calledAt)
    /\ inflight' = RemoveAt(inflight, k)
    /\ lastEmits' = <<>>
    /\ UNCHANGED StoreOnly

\* ------------------------------------------------------------------ MemStorage
\* the message methods of MemStorage called directly; each is synchronous
StoreCall(op, user, arg, status, count) ==
    /\ lastOp' = Op(op, 0, user, arg, status, count)
    /\ lastEmits' = <<>>
    /\ UNCHANGED <<StoreOnly, inflight>>

MemCreateMessage(senderId, receiverId) ==
    /\ Len(messages) < MaxMsgs
    /\ messages' = createMessage(messages, senderId, receiverId, "hi", Null)
    /\ StoreCall("createMessage", senderId, receiverId, "ok", 0)

MemDeleteMessageForMe(messageId, viewer) ==
    /\ IF HasMessage(messages, messageId)
       THEN /\ messages' = deleteMessageForMe(messages, messageId, ToString(viewer))
            /\ StoreCall("deleteMessageForMe", viewer, messageId, "ok", 0)
       ELSE /\ UNCHANGED messages
            /\ StoreCall("deleteMessageForMe", viewer, messageId, "Message not found", 0)

MemDeleteMessageForAll(messageId) ==
    /\ IF HasMessage(messages, messageId)
       THEN /\ messages' = deleteMessageForAll(messages, messageId)
            /\ StoreCall("deleteMessageForAll", 0, messageId, "ok", 0)
       ELSE /\ UNCHANGED messages
            /\ StoreCall("deleteMessageForAll", 0, messageId, "Message not found", 0)

MemMarkMessagesAsDelivered(receiverId) ==
    /\ messages' = markMessagesAsDelivered(messages, receiverId)
    /\ StoreCall("markMessagesAsDelivered", receiverId, 0, "ok",
                 Modified(messages, messages'))

MemMarkMessagesAsRead(senderId, receiverId) ==
    /\ messages' = markMessagesAsRead(messages, senderId, receiverId)
    /\ StoreCall("markMessagesAsRead", receiverId, senderId, "ok",
                 Modified(messages, messages'))

\* ------------------------------------------------------------------ client cache calls
\* addMessageToCache(userId, receiverId, newMessage) in the browser of userId;
\* `expired` says whether Date.now() is past the item's expiry, `setItemFails`
\* whether localStorage.setItem throws
AddMessageToCache(user, receiverId, newMessage, expired, setItemFails) ==
    LET key == getCacheKey(user, receiverId)
    IN  /\ localStorage' = addMessageToCache(localStorage, key, newMessage,
                                             expired, setItemFails)
        /\ lastOp' = Op("addMessageToCache", 0, user, receiverId,
                        IF SomeId(getCachedMessages(localStorage, key, expired), newMessage.id)
                        THEN "exists"
                        ELSE IF setItemFails THEN "setItem failed" ELSE "cached",
                        newMessage.id)
                     @@ [timestamp |-> newMessage.timestamp]
        /\ lastEmits' = <<>>
        /\ UNCHANGED <<sockets, userId, userSockets, users, messages, authLog, inflight,
                       browser, outbox>>

\* cacheMessages(userId, receiverId, messages) in the browser of userId
CacheMessagesCall(user, receiverId, list, setItemFails) ==
    /\ localStorage' = cacheMessages(localStorage, getCacheKey(user, receiverId), list,
                                     setItemFails)
    /\ lastOp' = Op("cacheMessages", 0, user, receiverId,
                    IF setItemFails THEN "setItem failed" ELSE "cached", Len(list))
                 @@ [input |-> list]
    /\ lastEmits' = <<>>
    /\ UNCHANGED <<sockets, userId, userSockets, users, messages, authLog, inflight,
                   browser, outbox>>

\* updateMessageStatusInCache(messageId, status)
UpdateMessageStatusInCache(messageId, status, setItemFails) ==
    /\ localStorage' = updateMessageStatusInCache(localStorage, messageId, status,
                                                  setItemFails)
    /\ lastOp' = Op("updateMessageStatusInCache", 0, 0, messageId, status, 0)
    /\ lastEmits' = <<>>
    /\ UNCHANGED <<sockets, userId, userSockets, users, messages, authLog, inflight,
                   browser, outbox>>

\* Date.now() - cacheEntry.metadata.timestamp > CACHE_EXPIRY_MS
Expired(ls, key) ==
    /\ ls[key] # <<>>
    /\ ls[key][1].parses
    /\ ls[key][1].age > CacheExpiry

\* getCachedMessages(userId, receiverId); lastOp.status is "null" when the
\* call returns null, lastOp.returned are the messages it returns otherwise,
\* lastOp.removed says whether it removed the item
GetCachedMessages(user, receiverId) ==
    LET key == getCacheKey(user, receiverId)
        expired == Expired(localStorage, key)
    IN  /\ localStorage' = AfterGet(localStorage, key, expired)
        /\ lastOp' = Op("getCachedMessages", 0, user, receiverId,
                        IF localStorage[key] = <<>> \/ expired
                           \/ ~localStorage[key][1].parses
                        THEN "null" ELSE "messages", 0)
                     @@ [returned |-> getCachedMessages(localStorage, key, expired),
                         removed  |-> localStorage'[key] # localStorage[key]]
        /\ lastEmits' = <<>>
        /\ UNCHANGED <<sockets, userId, userSockets, users, messages, authLog, inflight,
                       browser, outbox>>

\* a day passes: Date.now() grows by 24 hours
Day ==
    /\ \E key \in CacheKeys : localStorage[key] # <<>>
    /\ localStorage' =
          [key \in CacheKeys |->
              IF localStorage[key] = <<>> THEN <<>>
              ELSE <<[localStorage[key][1] EXCEPT
                         !.age = Min(@ + 1, CacheExpiry + 1),
                         !.idle = Min(@ + 1, CacheExpiry + 1)]>>]
    /\ lastOp' = Op("day", 0, 0, 0, "ok", 0)
    /\ lastEmits' = <<>>
    /\ UNCHANGED <<sockets, userId, userSockets, users, messages, authLog, inflight,
                   browser, outbox>>

\* the text of an item is replaced by text that JSON.parse rejects
GarbleItem(key) ==
    /\ localStorage[key] # <<>>
    /\ localStorage[key][1].parses
    /\ localStorage' = [localStorage EXCEPT ![key] =
                           <<[localStorage[key][1] EXCEPT !.parses = FALSE, !.idle = 0]>>]
    /\ lastOp' = Op("setItem", 0, 0, 0, "garbled", 0)
    /\ lastEmits' = <<>>
    /\ UNCHANGED <<sockets, userId, userSockets, users, messages, authLog, inflight,
                   browser, outbox>>

\* ------------------------------------------------------------------ delivery / read
\* the notification loop of mark_delivered over the rows `undelivered`:
\* senders in order of first appearance, each sender's rows in row order
RECURSIVE DeliveredNotices(_, _, _, _)
DeliveredNotices(undelivered, reg, live, receiver) ==
    IF undelivered = <<>> THEN <<>>
    ELSE LET senderId == undelivered[1].senderId
             mine     == SelectSeq(undelivered, LAMBDA m : m.senderId = senderId)
             rest     == SelectSeq(undelivered, LAMBDA m : m.senderId # senderId)
             target   == LiveSocket(reg, live, senderId)
         IN  (IF target = None THEN <<>>
              ELSE [i \in DOMAIN mine |->
                      Emit(target, "message_delivered",
                           [messageId |-> mine[i].id, receiverId |-> receiver])])
             \o DeliveredNotices(rest, reg, live, receiver)

\* mutant: the handler answers without calling the store
MarkDeliveredSkipsStore(h) ==
    /\ h \in sockets
    /\ IF userId[h] = None
       THEN NotAuthenticated(h, "mark_delivered", 0)
       ELSE /\ lastEmits' = <<>>
            /\ lastOp' = Op("mark_delivered", h, userId[h], 0, "ok", 0)
            /\ outbox' = outbox \ {h}
            /\ UNCHANGED <<sockets, userId, userSockets, users, messages, authLog, inflight,
                           localStorage, browser>>

\* socket.on("mark_delivered")
MarkDelivered(h) ==
    /\ h \in sockets
    /\ IF userId[h] = None
       THEN NotAuthenticated(h, "mark_delivered", 0)
       ELSE LET after == markMessagesAsDelivered(messages, userId[h])
                count == Modified(messages, after)
                undeliveredMessages == getUndeliveredMessages(after, userId[h])
            IN  /\ messages' = after
                /\ lastEmits' = IF count > 0
                                THEN DeliveredNotices(undeliveredMessages, userSockets,
                                                      sockets, userId[h])
                                ELSE <<>>
                /\ lastOp' = Op("mark_delivered", h, userId[h], 0, "ok", count)
                /\ outbox' = outbox \ {h}
                /\ UNCHANGED <<sockets, userId, userSockets, users, authLog, inflight, localStorage, browser>>

\* socket.on("mark_read") with data = {senderId}
MarkRead(h, senderId) ==
    /\ h \in sockets
    /\ IF userId[h] = None
       THEN NotAuthenticated(h, "mark_read", senderId)
       ELSE LET after  == markMessagesAsRead(messages, senderId, userId[h])
                count  == Modified(messages, after)
                target == LiveSocket(userSockets, sockets, senderId)
                readMessages ==
                    SelectSeq(getMessages(after, senderId, userId[h]),
                              LAMBDA m : /\ m.senderId = senderId
                                         /\ m.receiverId = userId[h]
                                         /\ m.read)
            IN  /\ messages' = after
                /\ lastEmits' = IF count > 0 /\ target # None
                                THEN [i \in DOMAIN readMessages |->
                                        Emit(target, "message_read",
                                             [messageId |-> readMessages[i].id,
                                              receiverId |-> userId[h]])]
                                ELSE <<>>
                /\ lastOp' = Op("mark_read", h, userId[h], senderId, "ok", count)
                /\ UNCHANGED <<sockets, userId, userSockets, users, authLog, inflight, localStorage, browser, outbox>>

\* socket.on("message_delivered") with data = {messageId, senderId}: relayed
\* to the sender's socket, the store is not touched
MessageDelivered(h, messageId, senderId) ==
    /\ h \in sockets
    /\ IF userId[h] = None
       THEN NotAuthenticated(h, "message_delivered", messageId)
       ELSE LET target == LiveSocket(userSockets, sockets, senderId)
            IN  /\ lastEmits' = IF target # None
                                THEN <<Emit(target, "message_delivered",
                                            [messageId |-> messageId,
                                             receiverId |-> userId[h]])>>
                                ELSE <<>>
                /\ lastOp' = Op("message_delivered", h, userId[h], messageId, "ok", 0)
                /\ UNCHANGED <<sockets, userId, userSockets, users, messages, authLog, inflight, localStorage, browser, outbox>>

\* socket.on("typing") with data = {receiverId}
Typing(h, receiverId) ==
    /\ h \in sockets
    /\ IF userId[h] = None
       THEN NotAuthenticated(h, "typing", receiverId)
       ELSE LET target == LiveSocket(userSockets, sockets, receiverId)
            IN  /\ lastEmits' = IF target # None
                                THEN <<Emit(target, "user_typing", [userId |-> userId[h]])>>
                                ELSE <<>>
                /\ lastOp' = Op("typing", h, userId[h], receiverId, "ok", 0)
                /\ UNCHANGED <<sockets, userId, userSockets, users, messages, authLog, inflight, localStorage, browser, outbox>>

\* ------------------------------------------------------------------ delete endpoints
\* mutant: the event goes to every connected socket
UserRoomIsEveryone(id) == sockets

\* io.to(`user_${id}`): the connected sockets that joined the user's room on auth
UserRoom(id) == {h \in sockets : userId[h] = id}

\* the client's socket.on("message_deleted_for_me"): the message is filtered
\* out of the query caches only when the event names the logged-in user
ClientRemovesForMe(currentUserId, ev) ==
    /\ ev.ev = "message_deleted_for_me"
    /\ ToString(currentUserId) = ev.userIdString

\* DELETE /api/messages/:messageId/for-me as the JWT user `requester`, whose
\* id goes to the store and into the event as a string (req.user.id.toString())
DeleteForMe(requester, messageId) ==
    /\ IF HasMessage(messages, messageId)
       THEN /\ messages' = deleteMessageForMe(messages, messageId, ToString(requester))
            /\ lastEmits' = Broadcast(UserRoom(requester), "message_deleted_for_me",
                                      [messageId |-> messageId,
                                       userIdString |-> ToString(requester)])
            /\ lastOp' = Op("delete_for_me", 0, requester, messageId, "200", 0)
       ELSE /\ messages' = messages
            /\ lastEmits' = <<>>
            /\ lastOp' = Op("delete_for_me", 0, requester, messageId, "500", 0)
    /\ UNCHANGED <<sockets, userId, userSockets, users, authLog, inflight, localStorage, browser, outbox>>

\* DELETE /api/messages/:messageId/for-all as the JWT user `requester`
DeleteForAll(requester, messageId) ==
    LET getMessage == getMessages(messages, requester, 0)
        found      == HasMessage(getMessage, messageId)
        message    == MessageById(getMessage, messageId)
        senderSocket   == LiveSocket(userSockets, sockets, message.senderId)
        receiverSocket == LiveSocket(userSockets, sockets, message.receiverId)
    IN  /\ IF ~found
           THEN /\ lastOp' = Op("delete_for_all", 0, requester, messageId, "404", 0)
                /\ lastEmits' = <<>>
                /\ messages' = messages
           ELSE IF message.senderId # requester
           THEN /\ lastOp' = Op("delete_for_all", 0, requester, messageId, "403", 0)
                /\ lastEmits' = <<>>
                /\ messages' = messages
           ELSE /\ messages' = deleteMessageForAll(messages, messageId)
                /\ lastEmits' =
                     IF message.senderId # 0 /\ message.receiverId # 0
                     THEN (IF senderSocket # None
                           THEN <<Emit(senderSocket, "message_deleted_for_all",
                                       [messageId |-> messageId])>> ELSE <<>>)
                          \o
                          (IF receiverSocket # None
                           THEN <<Emit(receiverSocket, "message_deleted_for_all",
                                       [messageId |-> messageId])>> ELSE <<>>)
                     ELSE <<>>
                /\ lastOp' = Op("delete_for_all", 0, requester, messageId, "200", 0)
        /\ UNCHANGED <<sockets, userId, userSockets, users, authLog, inflight, localStorage, browser, outbox>>

\* ------------------------------------------------------------------ client typing
\* socket.ts and message-input.tsx; a timer is a pending setTimeout callback
\* with the ticks left until it is due.

ServerVars == <<sockets, userId, userSockets, users, messages, authLog, inflight, outbox>>

Timer(fn, arg, due) == [fn |-> fn, arg |-> arg, due |-> due]

\* updateUserTypingStatus: the entry is written when it differs
updateUserTypingStatus(qc, id, isTyping) ==
    IF qc.typing_status[id] # isTyping
    THEN [qc EXCEPT !.typing_status[id] = isTyping] ELSE qc

isUserTyping(qc, id) == qc.typing_status[id]

\* mutant: the indicator is raised and no timeout is set to lower it
OnUserTypingNoReset(id) ==
    /\ queryClient' = updateUserTypingStatus(queryClient, id, TRUE)
    /\ lastOp' = Op("user_typing", 0, id, 0, "ok", 0)
    /\ lastEmits' = <<>>
    /\ UNCHANGED <<ServerVars, localStorage, timers, typingState, keystrokes, sends>>

\* the client's socket.on("user_typing") with data = {userId: id}
OnUserTyping(id) ==
    LET reset == Timer("updateUserTypingStatus", id, TypingStatusReset)
    IN  /\ Cardinality(timers \cup {reset}) <= MaxTimers
        /\ queryClient' = updateUserTypingStatus(queryClient, id, TRUE)
        /\ timers' = timers \cup {reset}
        /\ lastOp' = Op("user_typing", 0, id, 0, "ok", 0)
        /\ lastEmits' = <<>>
        /\ UNCHANGED <<ServerVars, localStorage, typingState, keystrokes, sends>>

\* handleTextChange with text that is not blank: the debounced notification
\* is called, which clears its timeout and sets a new one.  receiverId is the
\* selectedUser the debounced closure captured.
KeyStroke(receiverId) ==
    /\ timers' = {t \in timers : t.fn # "debounce"}
                 \cup {Timer("debounce", receiverId, DebounceWait)}
    /\ keystrokes' = IF ~keystrokes.typing \/ keystrokes.idle > DebounceWait
                     THEN [keystrokes EXCEPT !.typing = TRUE, !.since = 0,
                                             !.idle = 0, !.sent = 0]
                     ELSE [keystrokes EXCEPT !.idle = 0]
    /\ lastOp' = Op("keystroke", 0, 0, receiverId, "ok", 0)
    /\ lastEmits' = <<>>
    /\ UNCHANGED <<ServerVars, localStorage, queryClient, typingState, sends>>

\* a setTimeout callback that is due runs: the reset of the indicator, the
\* reset of typingState, or the debounced call of sendTypingStatus;
\* `connected` is socket.connected at that moment.  lastOp.count is 1 when
\* the callback lowered the indicator or emitted typing.
TimerFires(t, connected) ==
    LET others == timers \ {t}
        emits  == t.fn = "debounce" /\ connected /\ ~typingState[t.arg]
    IN  /\ t \in timers
        /\ t.due = 0
        /\ queryClient' = IF t.fn = "updateUserTypingStatus"
                          THEN updateUserTypingStatus(queryClient, t.arg, FALSE)
                          ELSE queryClient
        /\ typingState' = IF t.fn = "typingState"
                          THEN [typingState EXCEPT ![t.arg] = FALSE]
                          ELSE IF emits THEN [typingState EXCEPT ![t.arg] = TRUE]
                          ELSE typingState
        /\ timers' = IF t.fn = "debounce" /\ connected
                     THEN {o \in others : ~(o.fn = "typingState" /\ o.arg = t.arg)}
                          \cup {Timer("typingState", t.arg, TypingStateReset)}
                     ELSE others
        /\ lastEmits' = IF emits THEN <<Emit(0, "typing", [receiverId |-> t.arg])>>
                        ELSE <<>>
        /\ keystrokes' = IF emits THEN [keystrokes EXCEPT !.sent = 1, !.quiet = 0]
                         ELSE keystrokes
        /\ lastOp' = Op("timeout", 0, 0, t.arg, t.fn,
                        IF emits \/ queryClient' # queryClient THEN 1 ELSE 0)
        /\ UNCHANGED <<ServerVars, localStorage, sends>>

\* 250 ms pass; the callbacks that are due run first
Tick ==
    /\ \A t \in timers : t.due > 0
    /\ timers' = {[t EXCEPT !.due = @ - 1] : t \in timers}
    /\ keystrokes' = IF keystrokes.typing
                     THEN [keystrokes EXCEPT !.since = Min(@ + 1, MaxRun),
                                             !.idle = Min(@ + 1, DebounceWait + 1),
                                             !.quiet = Min(@ + 1, DebounceWait)]
                     ELSE keystrokes
    /\ lastOp' = Op("tick", 0, 0, 0, "ok", 0)
    /\ lastEmits' = <<>>
    /\ UNCHANGED <<ServerVars, localStorage, queryClient, typingState, sends>>

\* ------------------------------------------------------------------ client messages
\* The browser of the logged-in user `me` (queryClient ["/api/user"]).  A
\* message in the query cache or in localStorage is its id, its timestamp and
\* its isDeleted flag.  `sends` holds one record per message of the browser's
\* conversations, in the order the browser met them: for a message it sent
\* the temporary id, the receiver and the id the server assigned (0 until
\* message_sent is handled); for a message it received temp = 0, and pushed
\* says whether its private_message event has been handled.

Stamps == 1..(MaxCached + 1)

\* the ids in use in the browser
KnownIds ==
    {sends[k].id : k \in DOMAIN sends} \cup {sends[k].temp : k \in DOMAIN sends}
    \cup UNION {{queryClient.api_messages[u][i].id : i \in DOMAIN queryClient.api_messages[u]}
                   : u \in Chats}
    \cup UNION {{m[1].messages[i].id : i \in DOMAIN m[1].messages}
                   : m \in {localStorage[key] : key \in CacheKeys} \ {<<>>}}

\* queryClient.setQueryData(key, [...existing, message])
AppendToQuery(qc, id, message) ==
    IF id \in Chats THEN [qc EXCEPT !.api_messages[id] = Append(@, message)] ELSE qc

\* handleSendMessage with text, the socket connected: the optimistic message
\* with the temporary id `now` goes to localStorage and to the query cache,
\* then sendMessage replaces the message_sent listener and emits private_message
HandleSendMessage(me, receiverId, now, stamp, expired, setItemFails) ==
    LET optimisticMessage == [id |-> now, timestamp |-> stamp, isDeleted |-> FALSE]
    IN  /\ Len(sends) < MaxSends
        /\ now \notin KnownIds
        /\ localStorage' = addMessageToCache(localStorage, getCacheKey(me, receiverId),
                                             optimisticMessage, expired, setItemFails)
        /\ queryClient' = AppendToQuery(queryClient, receiverId, optimisticMessage)
        /\ sends' = Append(sends, [temp |-> now, receiverId |-> receiverId, id |-> 0,
                                   timestamp |-> stamp, isDeleted |-> FALSE,
                                   pushed |-> TRUE])
        /\ lastEmits' = <<Emit(0, "private_message",
                               [receiverId |-> receiverId, content |-> "hi"])>>
        /\ lastOp' = Op("handleSendMessage", 0, me, receiverId, "ok", now)
        /\ UNCHANGED <<ServerVars, timers, typingState, keystrokes>>

\* the oldest send the server has not confirmed
Unconfirmed == CHOOSE k \in DOMAIN sends :
                  sends[k].id = 0 /\ \A j \in 1..(k - 1) : sends[j].id # 0

\* the receiverId of the latest sendMessage call
LastReceiver ==
    LET own == SelectSeq(sends, LAMBDA r : r.temp # 0)
    IN  own[Len(own)].receiverId

\* the message_sent listener sendMessage registered last, which closes over
\* that call's receiverId; the event carries the stored message of the oldest
\* unconfirmed send, with the id the server assigned
OnMessageSent(me, id) ==
    LET k          == Unconfirmed
        receiverId == LastReceiver
        message    == [id |-> id, timestamp |-> sends[k].timestamp, isDeleted |-> FALSE]
    IN  /\ \E j \in DOMAIN sends : sends[j].id = 0
        /\ id \notin KnownIds
        /\ queryClient' = AppendToQuery(AppendToQuery(queryClient, receiverId, message),
                                        me, message)
        /\ sends' = [sends EXCEPT ![k].id = id]
        /\ lastEmits' = <<>>
        /\ lastOp' = Op("message_sent", 0, me, receiverId, "ok", id)
        /\ UNCHANGED <<ServerVars, localStorage, timers, typingState, keystrokes>>

\* the server has stored a message of senderId to `me` (private_message
\* handler up to its emit): every fetch returns it from now on, its
\* private_message event is on its way
MessageStored(me, senderId, id, stamp) ==
    /\ Len(sends) < MaxSends
    /\ id \notin KnownIds
    /\ sends' = Append(sends, [temp |-> 0, receiverId |-> me, id |-> id,
                               timestamp |-> stamp, isDeleted |-> FALSE,
                               pushed |-> FALSE])
    /\ lastEmits' = <<Emit(0, "private_message", [messageId |-> id, senderId |-> senderId])>>
    /\ lastOp' = Op("stored", 0, senderId, me, "ok", id)
    /\ UNCHANGED <<ServerVars, localStorage, queryClient, timers, typingState, keystrokes>>

\* socket.on("private_message") for the stored message `id` of senderId:
\* handleIncomingMessage, then the message_delivered notification
OnPrivateMessage(me, senderId, id, expired, setItemFails) ==
    /\ \E k \in DOMAIN sends : sends[k].id = id /\ ~sends[k].pushed
    /\ LET k == CHOOSE j \in DOMAIN sends : sends[j].id = id /\ ~sends[j].pushed
           message == [id |-> id, timestamp |-> sends[k].timestamp, isDeleted |-> FALSE]
       IN  /\ sends' = [sends EXCEPT ![k].pushed = TRUE]
           /\ queryClient' = AppendToQuery(AppendToQuery(queryClient, senderId, message),
                                           me, message)
           /\ localStorage' = addMessageToCache(localStorage, getCacheKey(me, senderId),
                                                message, expired, setItemFails)
    /\ lastEmits' = <<Emit(0, "message_delivered",
                           [messageId |-> id, senderId |-> senderId])>>
    /\ lastOp' = Op("private_message", 0, me, senderId, "ok", id)
    /\ UNCHANGED <<ServerVars, timers, typingState, keystrokes>>

\* the refetch of the conversation query that invalidateQueries starts, when
\* it succeeds: the data become the list the server returned
Refetch(partner, fetched) ==
    /\ queryClient' = [queryClient EXCEPT !.api_messages[partner] = fetched]
    /\ lastEmits' = <<>>
    /\ lastOp' = Op("refetch", 0, 0, partner, "ok", Len(fetched))
    /\ UNCHANGED <<ServerVars, localStorage, timers, typingState, keystrokes, sends>>

\* socket.on("message_deleted_for_all") for a message of the browser's
\* conversations: no handler is registered through onMessageDeletedForAll;
\* the message is filtered out of every ['/api/messages', ...] query
OnMessageDeletedForAll(messageId) ==
    /\ \E k \in DOMAIN sends : sends[k].id = messageId
    /\ sends' = [k \in DOMAIN sends |->
                    IF sends[k].id = messageId
                    THEN [sends[k] EXCEPT !.isDeleted = TRUE] ELSE sends[k]]
    /\ queryClient' = [queryClient EXCEPT !.api_messages =
                          [u \in Chats |-> SelectSeq(@[u], LAMBDA msg : msg.id # messageId)]]
    /\ lastEmits' = <<>>
    /\ lastOp' = Op("message_deleted_for_all", 0, 0, messageId, "ok", 0)
    /\ UNCHANGED <<ServerVars, localStorage, timers, typingState, keystrokes>>

\* useChatCache.fetchMessages when the conversation with `partner` is
\* opened: the cached messages are shown if there are any and fetchFromAPI
\* is started, holding whether the data came from the cache and the
\* lastMessageId of the item
FetchMessages(me, partner) ==
    LET key == getCacheKey(me, partner)
        expired == Expired(localStorage, key)
        fromCache == localStorage[key] # <<>> /\ localStorage[key][1].parses /\ ~expired
        after == AfterGet(localStorage, key, expired)
    IN  /\ queryClient.useChatCache.fetching = <<>>
        /\ localStorage' = after
        /\ queryClient' = [queryClient EXCEPT !.useChatCache =
              [messages |-> IF fromCache THEN getCachedMessages(localStorage, key, expired)
                            ELSE @.messages,
               fetching |-> <<[fromCache |-> fromCache,
                               lastCachedId |-> IF after[key] = <<>> THEN 0
                                                ELSE after[key][1].lastMessageId]>>]]
        /\ lastOp' = Op("fetchMessages", 0, me, partner,
                        IF fromCache THEN "cache" ELSE "api", 0)
        /\ lastEmits' = <<>>
        /\ UNCHANGED <<ServerVars, timers, typingState, keystrokes, sends>>

\* fetchFromAPI returns freshMessages: they are cached; they are shown when
\* nothing came from the cache, or when one of them has an id greater than
\* the lastMessageId held (or none was held)
FetchFromAPIReturns(me, partner, freshMessages, setItemFails) ==
    /\ queryClient.useChatCache.fetching # <<>>
    /\ LET held == queryClient.useChatCache.fetching[1]
           hasNewMessages ==
               \E i \in DOMAIN freshMessages :
                  held.lastCachedId = 0 \/ freshMessages[i].id > held.lastCachedId
       IN  /\ localStorage' = cacheMessages(localStorage, getCacheKey(me, partner),
                                            freshMessages, setItemFails)
           /\ queryClient' = [queryClient EXCEPT !.useChatCache =
                 [messages |-> IF ~held.fromCache \/ hasNewMessages
                               THEN freshMessages ELSE @.messages,
                  fetching |-> <<>>]]
           /\ lastOp' = Op("fetchFromAPI", 0, me, partner,
                           IF setItemFails THEN "setItem failed" ELSE "ok",
                           Len(freshMessages))
                        @@ [fromCache |-> held.fromCache]
    /\ lastEmits' = <<>>
    /\ UNCHANGED <<ServerVars, timers, typingState, keystrokes, sends>>

\* ------------------------------------------------------------------ failing mutations
\* The status and delete operations when the store call that writes fails.
\* MongoStorage.markMessagesAsDelivered / markMessagesAsRead log the error
\* and return 0 (a store that throws reaches the handler's catch block, which
\* only logs); deleteMessageForMe / deleteMessageForAll rethrow and the route
\* answers 500.  lastOp.fault names the call that failed.

\* socket.on("mark_delivered") on an authenticated socket
MarkDeliveredStoreFails(h) ==
    /\ h \in sockets
    /\ userId[h] # None
    /\ lastEmits' = <<>>
    /\ lastOp' = Op("mark_delivered", h, userId[h], 0, "ok", 0)
                 @@ [fault |-> "markMessagesAsDelivered"]
    /\ outbox' = outbox \ {h}
    /\ UNCHANGED <<sockets, userId, userSockets, users, messages, authLog, inflight,
                   localStorage, browser>>

\* socket.on("mark_read") on an authenticated socket
MarkReadStoreFails(h, senderId) ==
    /\ h \in sockets
    /\ userId[h] # None
    /\ lastEmits' = <<>>
    /\ lastOp' = Op("mark_read", h, userId[h], senderId, "ok", 0)
                 @@ [fault |-> "markMessagesAsRead"]
    /\ UNCHANGED <<sockets, userId, userSockets, users, messages, authLog, inflight,
                   localStorage, browser, outbox>>

\* DELETE /api/messages/:messageId/for-me
DeleteForMeStoreFails(requester, messageId) ==
    /\ lastEmits' = <<>>
    /\ lastOp' = Op("delete_for_me", 0, requester, messageId, "500", 0)
                 @@ [fault |-> "deleteMessageForMe"]
    /\ UNCHANGED <<sockets, userId, userSockets, users, messages, authLog, inflight,
                   localStorage, browser, outbox>>

\* DELETE /api/messages/:messageId/for-all, the request having passed the
\* sender check
DeleteForAllStoreFails(requester, messageId) ==
    LET getMessage == getMessages(messages, requester, 0)
    IN  /\ HasMessage(getMessage, messageId)
        /\ MessageById(getMessage, messageId).senderId = requester
        /\ lastEmits' = <<>>
        /\ lastOp' = Op("delete_for_all", 0, requester, messageId, "500", 0)
                     @@ [fault |-> "deleteMessageForAll"]
        /\ UNCHANGED <<sockets, userId, userSockets, users, messages, authLog, inflight,
                       localStorage, browser, outbox>>

\* ------------------------------------------------------------------ suspended handlers
\* socket.on("mark_read") up to `await storage.getMessages`: the messages are
\* marked, the sender's socket is resolved, and the handler suspends holding
\* that socket
MarkReadCall(h, senderId) ==
    /\ h \in sockets
    /\ userId[h] # None
    /\ Len(inflight) < MaxSaves
    /\ LET after  == markMessagesAsRead(messages, senderId, userId[h])
           count  == Modified(messages, after)
           senderSocket == LiveSocket(userSockets, sockets, senderId)
       IN  /\ messages' = after
           /\ inflight' = IF count > 0 /\ senderSocket # None
                          THEN Append(inflight,
                                      [op |-> "getMessages", conn |-> h, user |-> userId[h],
                                       arg |-> senderId, senderSocket |-> senderSocket,
                                       stage |-> "await", row |-> 0])
                          ELSE inflight
           /\ lastOp' = Op("mark_read", h, userId[h], senderId,
                           IF count > 0 /\ senderSocket # None THEN "await" ELSE "ok", count)
    /\ lastEmits' = <<>>
    /\ UNCHANGED <<sockets, userId, userSockets, users, authLog, localStorage, browser,
                   outbox>>

\* socket.on("mark_read") from the return of storage.getMessages: one
\* message_read per read message, emitted on the socket held since the call
MarkReadResume(k) ==
    /\ k \in DOMAIN inflight
    /\ inflight[k].op = "getMessages"
    /\ LET call == inflight[k]
           readMessages ==
               SelectSeq(getMessages(messages, call.arg, call.user),
                         LAMBDA m : /\ m.senderId = call.arg
                                    /\ m.receiverId = call.user
                                    /\ m.read)
       IN  /\ lastEmits' = [i \in DOMAIN readMessages |->
                               Emit(call.senderSocket, "message_read",
                                    [messageId |-> readMessages[i].id,
                                     receiverId |-> call.user])]
           /\ lastOp' = Op("mark_read", call.conn, call.user, call.arg, "ok",
                           Len(readMessages))
    /\ inflight' = RemoveAt(inflight, k)
    /\ UNCHANGED <<sockets, userId, userSockets, users, messages, authLog, localStorage,
                   browser, outbox>>

\* io.on("connection") with a socket id that is neither in the registry nor
\* held by a suspended disconnect handler: socket ids are not reissued
ConnectFresh(h) ==
    /\ \A u \in Users : userSockets[u] # h
    /\ \A k \in DOMAIN inflight : inflight[k].conn # h
    /\ Connect(h)

\* socket.on("disconnect") up to `await storage.setUserOnlineStatus`: the
\* socket has left io.sockets.sockets, the handler holds its userId
DisconnectCall(h) ==
    /\ h \in sockets
    /\ userId[h] = None \/ Len(inflight) < MaxSaves
    /\ sockets' = sockets \ {h}
    /\ authLog' = Without(authLog, h)
    /\ outbox' = outbox \ {h}
    /\ userId' = [userId EXCEPT ![h] = None]
    /\ inflight' = IF userId[h] # None
                   THEN Append(inflight,
                               [op |-> "setUserOnlineStatus", conn |-> h,
                                user |-> userId[h], stage |-> "await", row |-> 0])
                   ELSE inflight
    /\ lastOp' = Op("disconnect", h, userId[h], 0,
                    IF userId[h] # None THEN "await" ELSE "ok", 0)
    /\ lastEmits' = <<>>
    /\ UNCHANGED <<userSockets, users, messages, localStorage, browser>>

\* socket.on("disconnect") from the return of storage.setUserOnlineStatus:
\* when the call rejects the handler ends there, otherwise it broadcasts
\* user_status and deletes the user's registry entry
DisconnectReturn(k, rejects) ==
    /\ k \in DOMAIN inflight
    /\ inflight[k].op = "setUserOnlineStatus"
    /\ LET call == inflight[k]
       IN  IF rejects
           THEN /\ lastEmits' = <<>>
                /\ lastOp' = Op("disconnect", call.conn, call.user, 0, "error", 0)
                /\ UNCHANGED <<users, userSockets>>
           ELSE /\ users' = setUserOnlineStatus(users, call.user, FALSE)
                /\ lastEmits' = Broadcast(sockets, "user_status",
                                          [userId |-> call.user, online |-> FALSE])
                /\ userSockets' = [userSockets EXCEPT ![call.user] = None]
                /\ lastOp' = Op("disconnect", call.conn, call.user, 0, "ok", 0)
    /\ inflight' = RemoveAt(inflight, k)
    /\ UNCHANGED <<sockets, userId, messages, authLog, localStorage, browser, outbox>>

\* ------------------------------------------------------------------ specifications
Connections ==
    \E h \in Conns :
        \/ Connect(h)
        \/ \E u \in Users : Auth(h, u)
        \/ AuthInvalid(h)
        \/ Disconnect(h)

\* the connection registry and presence, and the typing relay that reads it
NextRegistry ==
    \/ Connections
    \/ \E h \in Conns, r \in PeerIds : Typing(h, r)

SpecRegistry == Init /\ [][NextRegistry]_vars

\* the message router: connections and the two send events
NextRouter ==
    \/ Connections
    \/ \E h \in Conns, r \in PeerIds :
        \/ \E c \in Contents : PrivateMessage(h, r, c)
        \/ \E p \in ImagePaths : ImageMessage(h, r, p)

SpecRouter == Init /\ [][NextRouter]_vars

\* the delivery/read state machine: connections, text sends, the status events
NextStatus ==
    \/ Connections
    \/ \E h \in Conns :
        \/ \E r \in PeerIds : PrivateMessage(h, r, "hi")
        \/ MarkDelivered(h)
        \/ \E s \in PeerIds : MarkRead(h, s)
        \/ \E id \in MessageIds, s \in PeerIds : MessageDelivered(h, id, s)

SpecStatus == Init /\ [][NextStatus]_vars

\* deletion: connections, text sends, the two delete endpoints
NextDelete ==
    \/ Connections
    \/ \E h \in Conns, r \in PeerIds : PrivateMessage(h, r, "hi")
    \/ \E u \in Users, id \in MessageIds :
        \/ DeleteForMe(u, id)
        \/ DeleteForAll(u, id)

SpecDelete == Init /\ [][NextDelete]_vars

\* the router over a store whose calls can fail
NextFaulty ==
    \/ Connections
    \/ \E h \in Conns, r \in PeerIds : PrivateMessage(h, r, "hi")
    \/ \E h \in Conns, r \in PeerIds : ImageMessage(h, r, "/api/uploads/a.png")
    \/ \E h \in Conns, r \in PeerIds, f \in StoreFaults :
          PrivateMessageStoreFails(h, r, "hi", f)
    \/ \E h \in Conns, r \in PeerIds, f \in StoreFaults :
          ImageMessageStoreFails(h, r, "/api/uploads/a.png", f)

SpecFaulty == Init /\ [][NextFaulty]_vars

\* the other party of a two-party conversation
Peer(a) == (a % NumUsers) + 1

\* the message collection of MongoStorage under concurrent callers
NextMongo ==
    \/ \E a \in Users, now \in Clock : MongoCreateMessage(a, Peer(a), now)
    \/ \E id \in MessageIds : MongoDeleteMessageForMe(id, NumUsers)
    \/ \E id \in MessageIds : MongoDeleteMessageForAll(id)
    \/ \E k \in 1..MaxSaves, f \in BOOLEAN : PreSave(k, f)
    \/ \E k \in 1..MaxSaves : Write(k)

SpecMongo == Init /\ [][NextMongo]_vars

\* the message table of MemStorage under any sequence of calls
NextMemStorage ==
    \/ \E a \in Users : MemCreateMessage(a, Peer(a))
    \/ \E id \in MessageIds, v \in Users : MemDeleteMessageForMe(id, v)
    \/ \E id \in MessageIds : MemDeleteMessageForAll(id)
    \/ \E b \in Users : MemMarkMessagesAsDelivered(b)
    \/ \E b \in Users : MemMarkMessagesAsRead(Peer(b), b)

SpecMemStorage == Init /\ [][NextMemStorage]_vars

\* the local cache of one browser under any sequence of appends to the
\* conversation of users 1 and 2, whichever of the two is logged in
NextCache ==
    \E u \in {1, 2}, m \in CacheMessages, expired \in BOOLEAN, setItemFails \in BOOLEAN :
       AddMessageToCache(u, 3 - u, m, expired, setItemFails)

SpecCache == Init /\ [][NextCache]_vars

\* the callbacks that can be due
DueTimers ==
    {Timer(fn, id, 0) : fn \in {"updateUserTypingStatus", "typingState", "debounce"},
                        id \in {1, 2}}

\* the typing indicator of one browser: user_typing events of users 1 and 2
NextTypingIndicator ==
    \/ \E id \in {1, 2} : OnUserTyping(id)
    \/ \E t \in DueTimers, c \in BOOLEAN : TimerFires(t, c)
    \/ Tick

SpecTypingIndicator == Init /\ [][NextTypingIndicator]_vars

\* time passes and the event loop runs every callback that is due
FairTypingIndicator ==
    /\ SpecTypingIndicator
    /\ WF_vars(Tick)
    /\ \A t \in DueTimers : WF_vars(\E c \in BOOLEAN : TimerFires(t, c))

\* the message input of one browser, the chat with user 2 open
NextTypingSender ==
    \/ KeyStroke(2)
    \/ \E t \in DueTimers, c \in BOOLEAN : TimerFires(t, c)
    \/ Tick

SpecTypingSender == Init /\ [][NextTypingSender]_vars

\* what GET /api/messages/:userId returns to the browser: the stored
\* messages of the conversation, those deleted for all with isDeleted set
Fetched ==
    LET stored == SelectSeq(sends, LAMBDA r : r.id # 0)
    IN  [i \in DOMAIN stored |->
            [id |-> stored[i].id, timestamp |-> stored[i].timestamp,
             isDeleted |-> stored[i].isDeleted]]

\* the messages of the browser of user 1, the chat with user 2 open
NextBrowser ==
    \/ \E now \in Clock, stamp \in Stamps, e \in BOOLEAN, f \in BOOLEAN :
          HandleSendMessage(1, 2, now, stamp, e, f)
    \/ \E id \in MessageIds : OnMessageSent(1, id)
    \/ \E id \in MessageIds, stamp \in Stamps : MessageStored(1, 2, id, stamp)
    \/ \E id \in MessageIds, e \in BOOLEAN, f \in BOOLEAN :
          OnPrivateMessage(1, 2, id, e, f)
    \/ Refetch(2, Fetched)
    \/ \E id \in MessageIds : OnMessageDeletedForAll(id)

SpecBrowser == Init /\ [][NextBrowser]_vars

\* catch-up on (re)connection: connections, text sends, mark_delivered
NextCatchUp ==
    \/ Connections
    \/ \E h \in Conns, r \in Users : PrivateMessage(h, r, "hi")
    \/ \E h \in Conns : MarkDelivered(h)

SpecCatchUp == Init /\ [][NextCatchUp]_vars

\* an emitted mark_delivered reaches the server and is handled unless the
\* socket disconnects first
FairCatchUp ==
    /\ SpecCatchUp
    /\ \A h \in Conns : WF_vars(h \in outbox /\ MarkDelivered(h))

\* the status and delete operations over a store whose writes can fail
NextFaultyStatus ==
    \/ \E h \in Conns : Connect(h) \/ Disconnect(h) \/ \E u \in Users : Auth(h, u)
    \/ \E h \in Conns, r \in {0, NumUsers} : PrivateMessage(h, r, "hi")
    \/ \E h \in Conns : MarkDelivered(h) \/ MarkDeliveredStoreFails(h)
    \/ \E h \in Conns : MarkRead(h, 1) \/ MarkReadStoreFails(h, 1)
    \/ \E id \in MessageIds :
          \/ DeleteForMe(NumUsers, id)
          \/ DeleteForMeStoreFails(NumUsers, id)
          \/ DeleteForAll(1, id)
          \/ DeleteForAllStoreFails(1, id)

SpecFaultyStatus == Init /\ [][NextFaultyStatus]_vars

\* the handlers that push to another user's socket, mark_read in the two
\* steps its await of getMessages divides it into
NextSuspended ==
    \/ \E h \in Conns : Connect(h) \/ Disconnect(h) \/ \E u \in Users : Auth(h, u)
    \/ \E h \in Conns : PrivateMessage(h, NumUsers, "hi")
    \/ \E h \in Conns : MarkDelivered(h)
    \/ \E h \in Conns : Typing(h, NumUsers)
    \/ \E id \in MessageIds : DeleteForAll(1, id)
    \/ \E h \in Conns : MarkReadCall(h, 1)
    \/ \E k \in 1..MaxSaves : MarkReadResume(k)

SpecSuspended == Init /\ [][NextSuspended]_vars

\* teardown: connections whose disconnect handler awaits the store, with
\* sends and typing events to the disconnecting user
NextTeardown ==
    \/ \E h \in Conns : ConnectFresh(h) \/ DisconnectCall(h) \/ \E u \in Users : Auth(h, u)
    \/ \E k \in 1..MaxSaves, rejects \in BOOLEAN : DisconnectReturn(k, rejects)
    \/ \E h \in Conns, r \in Users : PrivateMessage(h, r, "hi")
    \/ \E h \in Conns, r \in Users : Typing(h, r)

SpecTeardown == Init /\ [][NextTeardown]_vars

\* authentication while the store's setUserOnlineStatus can reject, and the
\* sends that the registry routes
NextAuthFaults ==
    \/ Connections
    \/ \E h \in Conns, u \in Users : AuthStoreFails(h, u)
    \/ \E h \in Conns, r \in Users : PrivateMessage(h, r, "hi")

SpecAuthFaults == Init /\ [][NextAuthFaults]_vars

\* a store call that was made returns or rejects
FairTeardown ==
    /\ SpecTeardown
    /\ \A k \in 1..MaxSaves : WF_vars(\E rejects \in BOOLEAN : DisconnectReturn(k, rejects))

\* concurrent sends over a MongoStorage whose queries and writes all succeed
\* unless the unique index rejects them
NextMongoAvailable ==
    \/ \E a \in Users, r \in Users, now \in Clock : MongoCreateMessage(a, r, now)
    \/ \E k \in 1..MaxSaves : PreSave(k, FALSE)
    \/ \E k \in 1..MaxSaves : Write(k)

SpecMongoAvailable == Init /\ [][NextMongoAvailable]_vars

\* the lists handed to cacheMessages: up to one message more than it keeps,
\* ids distinct, timestamps in any order
CacheLists ==
    UNION {{[i \in 1..n |-> [id |-> i, timestamp |-> ts[i]]] : ts \in [1..n -> Stamps]}
           : n \in 0..(MaxCached + 1)}

\* the writers of the local cache of user 1's browser, conversation with user 2
NextCacheWrites ==
    \/ \E list \in CacheLists, f \in BOOLEAN : CacheMessagesCall(1, 2, list, f)
    \/ \E m \in CacheMessages, f \in BOOLEAN : AddMessageToCache(1, 2, m, FALSE, f)
    \/ \E id \in 1..(MaxCached + 1), status \in {"delivered", "read"}, f \in BOOLEAN :
          UpdateMessageStatusInCache(id, status, f)

SpecCacheWrites == Init /\ [][NextCacheWrites]_vars

\* the local cache of user 1's browser over the days: two conversations
\* written, updated, garbled and read
NextCacheRead ==
    \/ \E r \in Users : CacheMessagesCall(1, r, <<[id |-> r, timestamp |-> 1]>>, FALSE)
    \/ \E id \in Users : UpdateMessageStatusInCache(id, "delivered", FALSE)
    \/ \E r \in Users : GetCachedMessages(1, r)
    \/ \E r \in Users : GarbleItem(getCacheKey(1, r))
    \/ Day

SpecCacheRead == Init /\ [][NextCacheRead]_vars

\* the sends of the browser of user 1 to two partners and their acks
NextAcks ==
    \/ \E r \in Chats \ {1}, now \in Clock, stamp \in Stamps :
          HandleSendMessage(1, r, now, stamp, FALSE, FALSE)
    \/ \E id \in MessageIds : OnMessageSent(1, id)

SpecAcks == Init /\ [][NextAcks]_vars

\* the browser of user 1 opening the conversation with user 2 between
\* sends, pushes and deletions
NextOpenChat ==
    \/ \E now \in Clock, stamp \in Stamps : HandleSendMessage(1, 2, now, stamp, FALSE, FALSE)
    \/ \E id \in MessageIds : OnMessageSent(1, id)
    \/ \E id \in MessageIds, stamp \in Stamps : MessageStored(1, 2, id, stamp)
    \/ \E id \in MessageIds : OnPrivateMessage(1, 2, id, FALSE, FALSE)
    \/ \E id \in MessageIds : OnMessageDeletedForAll(id)
    \/ FetchMessages(1, 2)
    \/ \E f \in BOOLEAN : FetchFromAPIReturns(1, 2, Fetched, f)

SpecOpenChat == Init /\ [][NextOpenChat]_vars

\* the server and the client cache
Next ==
    \/ NextAuthFaults
    \/ NextOpenChat
    \/ NextAcks
    \/ NextCacheRead
    \/ NextCacheWrites
    \/ NextMongoAvailable
    \/ NextTeardown
    \/ NextSuspended
    \/ NextFaultyStatus
    \/ NextCatchUp
    \/ NextBrowser
    \/ NextTypingIndicator
    \/ NextTypingSender
    \/ NextRouter
    \/ NextFaulty
    \/ NextMongo
    \/ NextMemStorage
    \/ NextCache
    \/ NextStatus
    \/ NextDelete
    \/ \E h \in Conns, r \in PeerIds : Typing(h, r)

Spec == Init /\ [][Next]_vars

\* ------------------------------------------------------------------ properties
Rows == {messages[i] : i \in DOMAIN messages}

\* the connected sockets that authenticated as user u
ConnectionsOf(u) == {h \in sockets : userId[h] = u}

\* the most recently authenticated connection of u that is still connected
MostRecentLive(u) ==
    LET mine == SelectSeq(authLog, LAMBDA h : h \in sockets /\ userId[h] = u)
    IN  IF mine = <<>> THEN None ELSE mine[Len(mine)]

\* C1: every stored message that is read is also delivered.
ReadImpliesDelivered == \A m \in Rows : m.read => m.delivered

\* C2: a delete-for-all of an existing message by a requester who is not its
\* sender is answered 403 and leaves the message's isDeleted as it was.
DeleteForAllByNonSenderForbidden ==
    [][\A u \in Users, id \in MessageIds :
          ( /\ HasMessage(messages, id)
            /\ MessageById(messages, id).senderId # u
            /\ lastOp'.op = "delete_for_all" /\ lastOp'.user = u /\ lastOp'.arg = id )
          => /\ lastOp'.status = "403"
             /\ MessageById(messages', id).isDeleted = MessageById(messages, id).isDeleted
      ]_vars

\* C3: when the sender A of a message to user B deletes it for all while both
\* are bound to live sockets, the call succeeds, both sockets get
\* message_deleted_for_all with the id, and a fetch of the conversation by
\* either shows the message with isDeleted set.
DeleteForAllBySenderNotifiesBoth ==
    [][\A a \in Users, b \in Users, id \in MessageIds :
          ( /\ HasMessage(messages, id)
            /\ MessageById(messages, id).senderId = a
            /\ MessageById(messages, id).receiverId = b
            /\ LiveSocket(userSockets, sockets, a) # None
            /\ LiveSocket(userSockets, sockets, b) # None
            /\ lastOp'.op = "delete_for_all" /\ lastOp'.user = a /\ lastOp'.arg = id )
          => /\ lastOp'.status = "200"
             /\ \A t \in {LiveSocket(userSockets, sockets, a),
                          LiveSocket(userSockets, sockets, b)} :
                   \E i \in DOMAIN lastEmits' :
                      /\ lastEmits'[i].to = t
                      /\ lastEmits'[i].ev = "message_deleted_for_all"
                      /\ lastEmits'[i].messageId = id
             /\ \A viewer \in {a, b} :
                   LET fetched == getMessages(messages', viewer, IF viewer = a THEN b ELSE a)
                   IN  HasMessage(fetched, id) /\ MessageById(fetched, id).isDeleted
      ]_vars

StaleDisconnectKeepsBinding ==
    [][\A h \in Conns :
          ( /\ lastOp'.op = "disconnect" /\ lastOp'.conn = h
            /\ h \in sockets /\ userId[h] # None
            /\ userSockets[userId[h]] # h
            /\ userSockets[userId[h]] \in sockets \ {h} )
          => userSockets'[userId[h]] = userSockets[userId[h]]
      ]_vars

MarkDeliveredNotifiesSenders ==
    [][( lastOp'.op = "mark_delivered" /\ lastOp'.count >= 1 )
          => \A i \in DOMAIN messages :
                ( /\ messages[i].receiverId = lastOp'.user
                  /\ messages[i].senderId # lastOp'.user
                  /\ ~messages[i].delivered
                  /\ LiveSocket(userSockets, sockets, messages[i].senderId) # None )
                => \E k \in DOMAIN lastEmits' :
                      /\ lastEmits'[k].to =
                            LiveSocket(userSockets, sockets, messages[i].senderId)
                      /\ lastEmits'[k].ev = "message_delivered"
                      /\ lastEmits'[k].messageId = messages[i].id
      ]_vars

\* C8: when B's socket emits mark_read for sender A while A has a connected
\* authenticated socket, every message from A to B that was unread is read
\* in the store afterwards and a socket of A gets message_read with its id.
MarkReadNotifiesSender ==
    [][\A a \in Users :
          ( /\ lastOp'.op = "mark_read" /\ lastOp'.user # None /\ lastOp'.arg = a
            /\ lastOp'.user # a
            /\ ConnectionsOf(a) # {} )
          => \A i \in DOMAIN messages :
                ( /\ messages[i].senderId = a
                  /\ messages[i].receiverId = lastOp'.user
                  /\ ~messages[i].read )
                => /\ messages'[i].read
                   /\ \E k \in DOMAIN lastEmits' :
                         /\ lastEmits'[k].to \in ConnectionsOf(a)
                         /\ lastEmits'[k].ev = "message_read"
                         /\ lastEmits'[k].messageId = messages[i].id
      ]_vars

\* C9: every stored message has exactly one of content and imagePath (a send
\* with neither is rejected and stores nothing).
ExactlyOneOfContentAndImage ==
    \A m \in Rows : (m.content = Null) # (m.imagePath = Null)

\* C10: a private_message from an authenticated socket adds exactly one row,
\* undelivered and unread, from the socket's user to the receiver; the
\* sending socket gets exactly one message_sent carrying the row's id, and a
\* receiver bound to a live socket gets exactly one private_message with the
\* sender's id and the content.
SendStoresPushesAcksOnce ==
    [][( lastOp'.op = "private_message" /\ lastOp'.user # None )
          => LET h    == lastOp'.conn
                 bound == LiveSocket(userSockets, sockets, lastOp'.arg)
                 m    == messages'[Len(messages')]
                 acks == {k \in DOMAIN lastEmits' :
                            lastEmits'[k].to = h /\ lastEmits'[k].ev = "message_sent"}
                 pushes == {k \in DOMAIN lastEmits' :
                            lastEmits'[k].ev = "private_message"}
             IN  /\ Len(messages') = Len(messages) + 1
                 /\ SubSeq(messages', 1, Len(messages)) = messages
                 /\ \A i \in DOMAIN messages : messages[i].id # m.id
                 /\ m.senderId = lastOp'.user /\ m.receiverId = lastOp'.arg
                 /\ ~m.delivered /\ ~m.read
                 /\ Cardinality(acks) = 1
                 /\ \A k \in acks : lastEmits'[k].messageId = m.id
                 /\ bound # None =>
                       /\ Cardinality(pushes) = 1
                       /\ \A k \in pushes :
                             /\ lastEmits'[k].to = bound
                             /\ lastEmits'[k].senderId = lastOp'.user
                             /\ lastEmits'[k].content = m.content
                             /\ lastEmits'[k].messageId = m.id
      ]_vars

\* C10 witness: a text message to another user who is bound to a live
\* socket has just been stored as the second row, pushed and acknowledged.
TextPushedToBoundReceiver ==
    /\ lastOp.op = "private_message" /\ lastOp.user # None
    /\ lastOp.arg \in Users /\ lastOp.arg # lastOp.user
    /\ Len(messages) = 2
    /\ messages[2].content = "hi"
    /\ \E k \in DOMAIN lastEmits :
          /\ lastEmits[k].ev = "private_message"
          /\ lastEmits[k].to = userSockets[lastOp.arg]
          /\ lastEmits[k].to # lastOp.conn

\* C11: a private_message or image_message on a socket that has not
\* authenticated stores no row and emits exactly one event, the error
\* "Not authenticated" on that socket (no push, no message_sent); every row a
\* send stores carries as senderId the user the sending socket authenticated as.
SendEvents == {"private_message", "image_message"}

PersistedSendIsAcked ==
    [][( lastOp'.op \in SendEvents /\ Len(messages') > Len(messages) )
          => /\ lastOp'.conn \in sockets'
             /\ \E k \in DOMAIN lastEmits' :
                   /\ lastEmits'[k].to = lastOp'.conn
                   /\ lastEmits'[k].ev = "message_sent"
                   /\ lastEmits'[k].messageId = messages'[Len(messages')].id
      ]_vars

\* C14: a send by an authenticated socket to a user who has no connected
\* authenticated socket stores the row and emits exactly one event, the
\* message_sent on the sending socket (no error, no push); a fetch of the
\* conversation by the receiver returns the row, then and in every later state.
OfflineReceiverSendSucceeds ==
    [][/\ ( /\ lastOp'.op \in SendEvents
            /\ lastOp'.user \in Users /\ lastOp'.arg \in Users
            /\ ConnectionsOf(lastOp'.arg) = {} )
          => LET m == messages'[Len(messages')]
             IN  /\ Len(messages') = Len(messages) + 1
                 /\ m.senderId = lastOp'.user /\ m.receiverId = lastOp'.arg
                 /\ lastEmits' = <<Emit(lastOp'.conn, "message_sent", MessageResponse(m))>>
                 /\ HasMessage(getMessages(messages', lastOp'.arg, lastOp'.user), m.id)
       /\ \A i \in DOMAIN messages :
             LET fetched == getMessages(messages', messages[i].receiverId,
                                        messages[i].senderId)
             IN  \E j \in DOMAIN fetched : fetched[j] = messages[i]
      ]_vars

\* C14 witness: a message to a user without any connected socket has just
\* been stored and confirmed, after that user had been online before.
SentToDisconnectedReceiver ==
    /\ lastOp.op = "private_message" /\ lastOp.status = "ok"
    /\ lastOp.user \in Users /\ lastOp.arg \in Users \ {lastOp.user}
    /\ ConnectionsOf(lastOp.arg) = {}
    /\ Len(messages) = 2
    /\ messages[1].senderId = lastOp.arg
    /\ messages[2].receiverId = lastOp.arg
    /\ Len(lastEmits) = 1 /\ lastEmits[1].ev = "message_sent"

\* C15: no two documents of the message collection have the same id; in
\* particular two sends whose saves overlap and are both stored get
\* different ids.
UniqueIds ==
    \A i, j \in DOMAIN messages : i # j => messages[i].id # messages[j].id

\* C15 witness: the second document has just been stored by a createMessage
\* that was called before the first document was written.
OverlappingSendsBothStored ==
    /\ lastOp.op = "createMessage" /\ lastOp.status = "ok"
    /\ lastOp.count = 0
    /\ Len(messages) = 2
    /\ messages[1].id # messages[2].id

\* C16: a successful deleteMessageForAll sets isDeleted on the message, and
\* a message with isDeleted set keeps it through every later call
\* (deleteMessageForMe, markMessagesAsDelivered, markMessagesAsRead, ...);
\* the conversation fetched by its sender and by its receiver both show it
\* with isDeleted set, whatever deletedBy holds.
TombstoneIsPermanent ==
    [][/\ ( lastOp'.op = "deleteMessageForAll" /\ lastOp'.status = "ok" )
          => MessageById(messages', lastOp'.arg).isDeleted
       /\ \A i \in DOMAIN messages :
             messages[i].isDeleted
                => LET m == messages'[i]
                   IN  /\ m.isDeleted
                       /\ \A fetched \in {getMessages(messages', m.senderId, m.receiverId),
                                           getMessages(messages', m.receiverId, m.senderId)} :
                             /\ HasMessage(fetched, m.id)
                             /\ MessageById(fetched, m.id).isDeleted
      ]_vars

\* C16 witness: a message that was deleted for all and deleted for one
\* viewer only has just been marked read, and still has isDeleted set.
TombstoneSurvivesLaterCalls ==
    /\ lastOp.op = "markMessagesAsRead" /\ lastOp.count = 1
    /\ Len(messages) = 1
    /\ messages[1].isDeleted /\ messages[1].read /\ messages[1].delivered
    /\ Len(messages[1].deletedBy) = 1

DeleteForMeIsIdempotent ==
    [][( lastOp'.op = "deleteMessageForMe" /\ lastOp'.status = "ok" )
          => LET uid == ToString(lastOp'.user)
             IN  /\ Len(messages') = Len(messages)
                 /\ \A i \in DOMAIN messages :
                       [messages'[i] EXCEPT !.deletedBy = messages[i].deletedBy] = messages[i]
                 /\ HasMessage(messages', lastOp'.arg)
                 /\ LET list == MessageById(messages', lastOp'.arg).deletedBy
                    IN  Cardinality({k \in DOMAIN list : list[k] = uid}) = 1
      ]_vars

\* C19: a delete-for-me or delete-for-all request for an id that no stored
\* message has is answered 404, emits no event and leaves the table as it was.
UnknownMessageIsNotFound ==
    [][( /\ lastOp'.op \in {"delete_for_me", "delete_for_all"}
         /\ ~HasMessage(messages, lastOp'.arg) )
          => /\ lastOp'.status = "404"
             /\ lastEmits' = <<>>
             /\ messages' = messages
      ]_vars

\* the messages of the item under `key`, none when the key is absent
CachedUnder(ls, key) == IF ls[key] = <<>> THEN <<>> ELSE ls[key][1].messages

Occurrences(list, id) == Cardinality({k \in DOMAIN list : list[k].id = id})

\* C20 as stated: after addMessageToCache, whether the id was cached before
\* or not, the pair's item holds exactly one message of that id.
AppendLeavesExactlyOne ==
    [][( lastOp'.op = "addMessageToCache" /\ lastOp'.status \in {"exists", "cached"} )
          => Occurrences(CachedUnder(localStorage', getCacheKey(lastOp'.user, lastOp'.arg)),
                         lastOp'.count) = 1
      ]_vars

\* C20 amended: no item ever holds two messages with the same id; a call with
\* an id that is cached leaves the item as it is, with one message of that
\* id; a call that writes the item leaves one message of the id unless the
\* item is full of messages at least as recent, in which case the new message
\* is the one trimmed.
AppendKeepsIdsDistinct ==
    [][lastOp'.op = "addMessageToCache"
          => LET key   == getCacheKey(lastOp'.user, lastOp'.arg)
                 after == CachedUnder(localStorage', key)
                 n     == Occurrences(after, lastOp'.count)
             IN  /\ \A k \in CacheKeys : \A i, j \in DOMAIN CachedUnder(localStorage', k) :
                       i # j => CachedUnder(localStorage', k)[i].id
                                   # CachedUnder(localStorage', k)[j].id
                 /\ lastOp'.status = "exists"
                       => n = 1 /\ localStorage' = localStorage
                 /\ lastOp'.status = "cached"
                       => \/ n = 1
                          \/ /\ n = 0
                             /\ Len(after) = MaxCached
                             /\ \A i \in DOMAIN after :
                                   after[i].timestamp >= lastOp'.timestamp
      ]_vars

\* C20 witness: the id just passed to addMessageToCache was already in the
\* full item of the pair, which still holds it once.
RepeatedAppendToFullItem ==
    /\ lastOp.op = "addMessageToCache" /\ lastOp.status = "exists"
    /\ LET list == CachedUnder(localStorage, getCacheKey(lastOp.user, lastOp.arg))
       IN  /\ Len(list) = MaxCached
           /\ Occurrences(list, lastOp.count) = 1

\* C21: a user's typing indicator is up only while a reset scheduled by a
\* user_typing event of that user is pending, so it is down once
\* TypingStatusReset ticks have passed since the latest such event; and an
\* indicator that is up always comes down, no other event being needed.
TypingIndicatorExpires ==
    /\ [](\A id \in Users :
             isUserTyping(queryClient, id)
                => \E t \in timers : /\ t.fn = "updateUserTypingStatus" /\ t.arg = id
                                     /\ t.due <= TypingStatusReset)
    /\ \A id \in Users :
          isUserTyping(queryClient, id) ~> ~isUserTyping(queryClient, id)

\* C21 witness: the reset scheduled by the latest user_typing event of a user
\* has just lowered that user's indicator, no renewal having arrived.
IndicatorLoweredByTimeout ==
    /\ lastOp.op = "timeout" /\ lastOp.status = "updateUserTypingStatus"
    /\ lastOp.count = 1
    /\ ~isUserTyping(queryClient, lastOp.arg)
    /\ \A t \in timers : t.arg # lastOp.arg

\* C30: typing events are emitted at most once per DebounceWait ticks, and a
\* run of keystrokes (each within DebounceWait ticks of the one before) that
\* has lasted longer than DebounceWait ticks has had a typing event emitted
\* during it.
TypingEmittedWhileTyping ==
    [][/\ ( lastOp'.op = "timeout" /\ lastEmits' # <<>> )
          => keystrokes.quiet >= DebounceWait
       /\ ( /\ lastOp'.op = "keystroke"
            /\ keystrokes.typing /\ keystrokes.idle <= DebounceWait
            /\ keystrokes'.since > DebounceWait )
          => keystrokes'.sent >= 1
      ]_vars

\* C22: when message_sent has been handled for a send, the query of the
\* conversation with the send's receiver holds exactly one message with the
\* id the server assigned and none with the send's temporary id; the
\* temporary entry and the confirmed entry of a send are never both in it.
AckReplacesOptimistic ==
    [][/\ lastOp'.op = "message_sent"
          => \A k \in DOMAIN sends' :
                sends'[k].id = lastOp'.count
                   => LET list == queryClient'.api_messages[sends'[k].receiverId]
                      IN  /\ Occurrences(list, sends'[k].id) = 1
                          /\ Occurrences(list, sends'[k].temp) = 0
       /\ \A k \in DOMAIN sends' :
             ( sends'[k].temp # 0 /\ sends'[k].id # 0 )
                => LET list == queryClient'.api_messages[sends'[k].receiverId]
                   IN  ~(SomeId(list, sends'[k].temp) /\ SomeId(list, sends'[k].id))
      ]_vars

\* C23: when message_deleted_for_all has been handled for a message, no
\* ['/api/messages', ...] query and no localStorage item of the browser holds
\* a message of that id that is not marked deleted.
DeletedForAllLeavesNoCopy ==
    [][lastOp'.op = "message_deleted_for_all"
          => /\ \A u \in Chats : \A i \in DOMAIN queryClient'.api_messages[u] :
                   queryClient'.api_messages[u][i].id = lastOp'.arg
                      => queryClient'.api_messages[u][i].isDeleted
             /\ \A key \in CacheKeys : \A i \in DOMAIN CachedUnder(localStorage', key) :
                   CachedUnder(localStorage', key)[i].id = lastOp'.arg
                      => CachedUnder(localStorage', key)[i].isDeleted
      ]_vars

\* C24: in every step, every stored message stays stored, a delivered, read
\* or isDeleted flag that is set stays set, and every element of deletedBy
\* stays in deletedBy.
StatusAndDeletionOnlyGrow ==
    [][\A i \in DOMAIN messages :
          /\ i \in DOMAIN messages'
          /\ messages[i].delivered => messages'[i].delivered
          /\ messages[i].read => messages'[i].read
          /\ messages[i].isDeleted => messages'[i].isDeleted
          /\ \A k \in DOMAIN messages[i].deletedBy :
                Includes(messages'[i].deletedBy, messages[i].deletedBy[k])
      ]_vars

\* C24 witness: a message that is delivered, read and deleted for all has
\* just been deleted for a second viewer, every flag still set.
AllFlagsSetAndTwoViewers ==
    /\ lastOp.op = "deleteMessageForMe" /\ lastOp.status = "ok"
    /\ \E m \in Rows :
          /\ m.id = lastOp.arg
          /\ m.delivered /\ m.read /\ m.isDeleted
          /\ Len(m.deletedBy) = 2
          /\ m.deletedBy[2] = ToString(lastOp.user)

\* C25: a message to user B that is undelivered while a socket of B has
\* authenticated and its client's mark_delivered is on its way is
\* eventually delivered in the store, unless that socket disconnects first.
CatchUpDelivers ==
    \A h \in Conns, i \in 1..MaxMsgs :
       ( /\ h \in outbox
         /\ i \in DOMAIN messages
         /\ messages[i].receiverId = userId[h]
         /\ ~messages[i].delivered )
       ~> ( (i \in DOMAIN messages /\ messages[i].delivered) \/ h \notin sockets )

\* C25 witness: the mark_delivered that followed an auth has just been
\* handled and marked a message of another user delivered, whose sender has
\* no connected socket.
CaughtUpAfterAuth ==
    /\ lastOp.op = "mark_delivered" /\ lastOp.count = 1
    /\ lastOp.conn \in sockets /\ lastOp.conn \notin outbox
    /\ \E m \in Rows :
          /\ m.receiverId = lastOp.user /\ m.senderId # lastOp.user
          /\ m.delivered
          /\ ConnectionsOf(m.senderId) = {}

\* C26: in every step of mark_delivered, mark_read, delete-for-me or
\* delete-for-all whose store write failed, the stored messages are
\* unchanged, no event is emitted except an error to the calling socket, and
\* the failure is surfaced to the caller: an error event on the calling
\* socket, or status 500 on the route.
FailedMutationSurfaced ==
    [][( /\ "fault" \in DOMAIN lastOp'
         /\ lastOp'.op \in {"mark_delivered", "mark_read",
                            "delete_for_me", "delete_for_all"} )
          => /\ messages' = messages
             /\ \A i \in DOMAIN lastEmits' :
                   lastEmits'[i].ev = "error" /\ lastEmits'[i].to = lastOp'.conn
             /\ \/ lastOp'.status = "500"
                \/ \E i \in DOMAIN lastEmits' :
                      lastEmits'[i].ev = "error" /\ lastEmits'[i].to = lastOp'.conn
      ]_vars

\* C27: every event that send, mark_delivered, mark_read, typing or
\* delete-for-all pushes to a socket other than the caller's goes to a socket
\* that is connected when the event is emitted.
PushOnlyToLiveHandle ==
    [][lastOp'.op \in {"private_message", "mark_delivered", "mark_read", "typing",
                        "delete_for_all"}
          => \A i \in DOMAIN lastEmits' :
                lastEmits'[i].to # lastOp'.conn => lastEmits'[i].to \in sockets'
      ]_vars

\* C28: a createMessage document is written to the collection only when no
\* createMessage of the same sender that was called earlier is still in
\* flight: messages of one sender are persisted in the order of the calls.
PersistedInArrivalOrder ==
    [][\A k \in DOMAIN inflight :
          ( /\ inflight[k].op = "createMessage"
            /\ inflight' = RemoveAt(inflight, k)
            /\ Len(messages') = Len(messages) + 1 )
          => \A j \in 1..(k - 1) :
                ( /\ inflight[j].op = "createMessage"
                  /\ inflight[j].user = inflight[k].user )
                => inflight[j] = inflight[k]
      ]_vars

\* C29: a registry entry that names a disconnected socket is eventually gone;
\* no send or typing step emits to a socket that is not connected; and a send
\* to a user without a connected socket stores the message and emits only
\* message_sent to the sender.
DisconnectUnbinds ==
    /\ \A h \in Conns, u \in Users :
          (h \notin sockets /\ userSockets[u] = h) ~> (userSockets[u] # h)
    /\ [][lastOp'.op \in {"private_message", "typing"}
             => \A i \in DOMAIN lastEmits' : lastEmits'[i].to \in sockets'
         ]_vars
    /\ [][( /\ lastOp'.op = "private_message"
            /\ lastOp'.user # None
            /\ ConnectionsOf(lastOp'.arg) = {} )
             => /\ Len(messages') = Len(messages) + 1
                /\ Len(lastEmits') = 1
                /\ lastEmits'[1].ev = "message_sent"
                /\ lastEmits'[1].to = lastOp'.conn
         ]_vars

\* C39: the typing indicator of user u is lowered only when no timeout set
\* by a user_typing event of u is still pending, that is, not before the
\* window of the most recent event of u has elapsed.
IndicatorHeldForLatestWindow ==
    [][\A u \in Users :
          ( isUserTyping(queryClient, u) /\ ~isUserTyping(queryClient', u) )
          => \A t \in timers' : ~(t.fn = "updateUserTypingStatus" /\ t.arg = u)
      ]_vars

\* C40: no save() of a createMessage document is rejected: with every query
\* and write of the store succeeding, each document in flight is written.
EverySendPersisted ==
    [][\A k \in DOMAIN inflight :
          ( inflight[k].op = "createMessage" /\ inflight' = RemoveAt(inflight, k) )
          => /\ lastOp'.status = "ok"
             /\ Len(messages') = Len(messages) + 1
      ]_vars

Ascending(list) ==
    \A i \in DOMAIN list, j \in DOMAIN list :
       i < j => list[i].timestamp <= list[j].timestamp

\* C31: after every call, each stored item holds its messages in ascending
\* timestamp order and at most MAX_CACHED_MESSAGES of them; the item
\* cacheMessages stores holds as many messages of its input as the cap allows,
\* and every message of the input it left out is no more recent than any
\* message it kept.
CacheSortedCappedMostRecent ==
    [][/\ \A key \in CacheKeys :
             /\ Ascending(CachedUnder(localStorage', key))
             /\ Len(CachedUnder(localStorage', key)) <= MaxCached
       /\ ( lastOp'.op = "cacheMessages" /\ lastOp'.status = "cached" )
            => LET kept == CachedUnder(localStorage', getCacheKey(lastOp'.user, lastOp'.arg))
                   input == lastOp'.input
               IN  /\ Len(kept) = Min(Len(input), MaxCached)
                   /\ \A i \in DOMAIN kept : \E k \in DOMAIN input : input[k] = kept[i]
                   /\ \A k \in DOMAIN input :
                         (\A i \in DOMAIN kept : kept[i] # input[k])
                            => \A i \in DOMAIN kept :
                                  kept[i].timestamp >= input[k].timestamp
      ]_vars

\* C31 witness: cacheMessages was handed more messages than the cap, not in
\* timestamp order, and stored an item of MAX_CACHED_MESSAGES messages
\* leaving out an older one.
CapTrimmedUnsortedInput ==
    /\ lastOp.op = "cacheMessages" /\ lastOp.status = "cached"
    /\ Len(lastOp.input) > MaxCached
    /\ ~Ascending(lastOp.input)
    /\ Len(CachedUnder(localStorage, getCacheKey(lastOp.user, lastOp.arg))) = MaxCached
    /\ \E k \in DOMAIN lastOp.input :
          \A i \in DOMAIN CachedUnder(localStorage, getCacheKey(lastOp.user, lastOp.arg)) :
             CachedUnder(localStorage, getCacheKey(lastOp.user, lastOp.arg))[i].timestamp
                > lastOp.input[k].timestamp

\* C32 as stated: getCachedMessages on an item that was last set more than
\* the retention window ago, or that does not parse, returns null and
\* removes that item only; on an item set within the window that parses it
\* returns the item's messages and changes nothing.
ReadHealsByLastWrite ==
    [][lastOp'.op = "getCachedMessages"
          => LET key == getCacheKey(lastOp'.user, lastOp'.arg)
             IN  localStorage[key] # <<>>
                 => IF ~localStorage[key][1].parses
                       \/ localStorage[key][1].idle > CacheExpiry
                    THEN /\ lastOp'.status = "null"
                         /\ lastOp'.returned = <<>>
                         /\ localStorage' = [localStorage EXCEPT ![key] = <<>>]
                    ELSE /\ lastOp'.status = "messages"
                         /\ lastOp'.returned = localStorage[key][1].messages
                         /\ localStorage' = localStorage
      ]_vars

\* C32 amended: the retention window counts from metadata.timestamp, the last
\* write by cacheMessages.
ReadHealsByMetadataTimestamp ==
    [][lastOp'.op = "getCachedMessages"
          => LET key == getCacheKey(lastOp'.user, lastOp'.arg)
             IN  localStorage[key] # <<>>
                 => IF ~localStorage[key][1].parses
                       \/ localStorage[key][1].age > CacheExpiry
                    THEN /\ lastOp'.status = "null"
                         /\ lastOp'.returned = <<>>
                         /\ localStorage' = [localStorage EXCEPT ![key] = <<>>]
                    ELSE /\ lastOp'.status = "messages"
                         /\ lastOp'.returned = localStorage[key][1].messages
                         /\ localStorage' = localStorage
      ]_vars

\* C32 witness: a read has just returned null and removed its item while the
\* item of the other conversation, as old and not yet read, is still stored.
ExpiredReadLeavesOtherPair ==
    /\ lastOp.op = "getCachedMessages" /\ lastOp.status = "null" /\ lastOp.removed
    /\ localStorage[getCacheKey(lastOp.user, lastOp.arg)] = <<>>
    /\ \E key \in CacheKeys :
          /\ localStorage[key] # <<>>
          /\ localStorage[key][1].parses
          /\ localStorage[key][1].age > CacheExpiry
          /\ localStorage[key][1].messages # <<>>

\* C38: when message_sent has been handled for a send, the query of the
\* conversation with that send's receiver holds the confirmed message.
AckMergedIntoItsConversation ==
    [][lastOp'.op = "message_sent"
          => \A k \in DOMAIN sends' :
                sends'[k].id = lastOp'.count
                   => SomeId(queryClient'.api_messages[sends'[k].receiverId], sends'[k].id)
      ]_vars

\* C33: when a private_message event has been handled, the query of the
\* conversation with its sender holds the message exactly once.
PushMergedOnce ==
    [][lastOp'.op = "private_message"
          => Occurrences(queryClient'.api_messages[lastOp'.arg], lastOp'.count) = 1
      ]_vars

\* C34: when the fetch started by opening a conversation with cached
\* messages has returned and been cached, no send awaiting its
\* confirmation, the messages of useChatCache and
\* the messages of the conversation's localStorage item are the messages
\* the server returned.
OpenedChatConverges ==
    [][( /\ lastOp'.op = "fetchFromAPI"
         /\ lastOp'.status = "ok"
         /\ lastOp'.fromCache
         /\ \A k \in DOMAIN sends : sends[k].id # 0 )
          => LET server == {Fetched[i] : i \in DOMAIN Fetched}
                 shown  == queryClient'.useChatCache.messages
                 cached == CachedUnder(localStorage',
                                       getCacheKey(lastOp'.user, lastOp'.arg))
             IN  /\ {shown[i] : i \in DOMAIN shown} = server
                 /\ {cached[i] : i \in DOMAIN cached} = server
      ]_vars

\* C35: whenever a user has a connected authenticated socket and no
\* disconnect handler of that user is suspended, the user's online flag is
\* true, and the step that completes a disconnect handler of that user has
\* not broadcast online: false.
ReconnectKeepsOnline ==
    [][\A u \in Users :
          ( /\ {h \in sockets' : userId'[h] = u} # {}
            /\ \A k \in DOMAIN inflight' : inflight'[k].user # u )
          => /\ users'[u].online
             /\ ( lastOp'.op = "disconnect" /\ lastOp'.user = u )
                  => \A i \in DOMAIN lastEmits' :
                        ~( /\ lastEmits'[i].ev = "user_status"
                           /\ lastEmits'[i].userId = u
                           /\ ~lastEmits'[i].online )
      ]_vars

\* C36: a connected socket that the registry binds to a user has reached
\* auth_success, a pushed private_message goes to a socket that has reached
\* auth_success, and an auth with an invalid token leaves the registry and
\* the online flags as they were and broadcasts no user_status.
AuthAllOrNothing ==
    [][ /\ \A u \in Users :
              userSockets'[u] \in sockets'
              => \E i \in DOMAIN authLog' : authLog'[i] = userSockets'[u]
        /\ \A i \in DOMAIN lastEmits' :
              lastEmits'[i].ev = "private_message"
              => \E j \in DOMAIN authLog' : authLog'[j] = lastEmits'[i].to
        /\ ( lastOp'.op = "auth" /\ lastOp'.status = "error" )
              => /\ userSockets' = userSockets
                 /\ users' = users
                 /\ \A i \in DOMAIN lastEmits' : lastEmits'[i].ev # "user_status"
      ]_vars

\* C37: whenever a step emits message_delivered for a message id to a socket,
\* the store holds a message of that id with delivered true, and the handler
\* ran on a socket authenticated as that message's receiver.
DeliveredEventBackedByStore ==
    [][\A i \in DOMAIN lastEmits' :
          lastEmits'[i].ev = "message_delivered"
          => \E k \in DOMAIN messages' :
                /\ messages'[k].id = lastEmits'[i].messageId
                /\ messages'[k].delivered
                /\ messages'[k].receiverId = lastOp'.user
      ]_vars

====
